---- MODULE Spec2Model ----
(***************************************************************************)
(* A model of the Botnana client engine (src/src/botnana.rs).              *)
(*                                                                         *)
(* Eleven specifications share the variables below:                        *)
(*   Spec          the lifecycle of the first connection with its traffic: *)
(*                 connect(), the WS_CLIENT event loop and its cleanup,    *)
(*                 the Try Connection thread, the relay, the               *)
(*                 MESSAGE_PROCESSOR and POLL workers, the watchdog;       *)
(*   SpecConnect   connect() called from two threads, over and over;       *)
(*   SpecReconnect connect() called again by one thread after a            *)
(*                 connection ended, with send_script_to_buffer;           *)
(*   SpecSched     the POLL thread's tick on an established connection;    *)
(*   SpecOverlap   the POLL threads of two connections on one queue;       *)
(*   SpecFlush     flush_scripts_buffer next to the POLL thread's tick;    *)
(*   SpecPoll      SpecSched up to the end of the connection;              *)
(*   SpecDisp      handle_message and the two callback registries;         *)
(*   SpecLocks     handle_message with the mutexes it holds, callbacks     *)
(*                 that register handlers, and the end of the workers;     *)
(*   SpecBridge    the Modbus thread of mb_connect and the two register    *)
(*                 slots it shares with the host;                          *)
(*   SpecTake      mb_connect called more than once.                       *)
(*                                                                         *)
(* Strings are sequences of one-character strings.  Option::None is None.  *)
(* A connection is the set of threads and channels one connect() call      *)
(* creates; connections are numbered 1, 2, ... in the order of creation.   *)
(***************************************************************************)
EXTENDS Integers, Sequences, FiniteSets, TLC

\* ------------------------------------------------------------------ bounds
\* connect() calls that get past the is_connecting test
MaxConn == 2
\* fragments send_script_to_buffer may enqueue in one behaviour
MaxScripts == 3
\* the same, while the connection lifecycle is explored
MaxLifeScripts == 2
\* send_message calls in one behaviour
MaxMsgs == 1
\* inbound frames waiting in one connection's client_sender channel
MaxIn == 1
\* ticks of the POLL thread followed in SpecSched
MaxTicks == 5
\* the largest scripts_pop_count, query_count, and lengths of init_queries and
\* cyclic_queries SpecSched starts from
MaxPopCount == 2
MaxQueryCount == 3
MaxInit == 2
MaxCyclic == 4
\* SpecDisp: registrations made, frames handled, the largest count registered
MaxRegs == 2
MaxFrames == 2
MaxCount == 2
\* SpecBridge: the smallest register block, the cycles of the Modbus thread
\* followed, the host's calls on the holding slot
MinBlock == 1
MaxCycles == 2
MaxHostOps == 2
\* mb_connect calls in one behaviour
MaxMbCalls == 2

\* ------------------------------------------------------- program constants
\* scripts_pop_count after Botnana::new
DefaultPopCount == 8
\* query_count after Botnana::new
DefaultQueryCount == 3
\* mb_connect: the words one read_write_multiple_registers call carries
MaxChunk == 121
\* mb_connect: the address of word 0 of the input and of the holding registers
InputBase == 30001
HoldingBase == 40001

None == 0
Conns == 1..MaxConn
\* Two user threads, each holding a clone of the engine.
Callers == {"A", "B"}
\* The script texts handed to send_script_to_buffer, in the order of the calls.
ScriptNames == <<"a", "b", "c", "d", "e", "f">>
\* The query strings other modules of the crate put into init_queries and
\* cyclic_queries.
InitNames == <<"i1", "i2", "i3", "i4">>
CyclicNames == <<"q1", "q2", "q3", "q4", "q5", "q6">>

VARIABLES
    \* Botnana fields
    is_connecting, is_connected, ws_out, user_sender, scripts_buffer,
    scripts_pop_count, init_queries, cyclic_queries, last_query, query_count,
    \* user threads: position inside connect()
    cpc,
    \* connections created so far
    nconn,
    \* per connection: the WS_CLIENT thread (event loop, then cleanup)
    ws,
    \* per connection: Client.is_watchdog_refreshed, and whether the timeout is armed
    is_watchdog_refreshed, wd_armed,
    \* per connection: the Try Connection thread, the relay, MESSAGE_PROCESSOR, POLL
    tpc, relay, mp, poll,
    \* per connection: the channels thread_tx, user_sender, client_sender, poll_sender
    thread_ch, user_ch, in_ch, poll_ch,
    \* per connection: what the on_error / on_open callbacks were called with
    err_log, open_log,
    \* history: fragments enqueued, send_message calls made
    enqueued, nmsgs,
    \* history, per connection: the frames that entered the user_sender
    \* channel, and the frames its relay thread wrote to the transport
    entered, wire,
    \* history, per connection: an inbound message arrived since the last expiry
    wd_arrived,
    \* history of the POLL thread: ticks made, what the last tick did, the
    \* cyclic queries sent since the cursor was last 0, the last finished cycle
    ntick, last_tick, cycle, last_cycle,
    \* history of the POLL thread: the init queries taken off init_queries
    init_removed,
    \* the registries: tag_handlers, tagname_handlers, internal_handlers
    tag_handlers, tagname_handlers, internal_handlers,
    \* history of the dispatcher: frames handled, the callbacks the last frame
    \* invoked, every registration made, and per registration the events that
    \* matched it and the times it was invoked
    nframes, nevents, calls, registered, matched, fired,
    \* history of the dispatcher: which frame was handled last, and how many
    \* registrations had been made by then
    last_frame,
    \* per connection: the text its POLL thread has taken from the script queue
    \* in pop_scripts_buffer and not yet passed to evaluate
    poll_local,
    \* MB_BLOCK_SIZE of the build
    mb_size,
    \* the two triple buffers made by Botnana::new (inputs: written by the
    \* Modbus thread, read by the host; holding: the reverse), is_mb_connected
    mbin, mbhd, is_mb_connected,
    \* the Modbus thread: its position and the locals left, start of its loop
    mb_pc, mb_left, mb_start,
    \* history of the Modbus thread: cycles begun, the exchanges of the cycle
    \* under way and of the last cycle published, the server's answers read
    \* in them, the last two snapshots of the inputs it published, the last
    \* snapshot of the holding slot the host published, the host's calls on it
    mb_cycle, exch, last_exch, in_pub, in_prev, hd_pub, nset,
    \* history, per connection: the steps of its handshake and of its Try
    \* Connection thread, in the order taken
    life_log,
    \* the owner of each Mutex handle_message locks; the position of the
    \* MESSAGE_PROCESSOR thread of connection 1 inside handle_message; the host
    \* thread's position inside a set_..._callback call; the callbacks
    \* registered; the registration calls made
    mtx, hm_pc, host_pc, cbs, nregs,
    \* Botnana fields mbin_input and mbhd_output: whether the Option still
    \* holds the handle; per mb_connect call, the position of its thread
    mbin_input, mbhd_output, mb_thr,
    \* the host thread inside send_script_to_buffer: "idle", or "push" once
    \* has_ws_sender returned true
    ss_pc,
    \* the host thread inside flush_scripts_buffer: its local msg, and
    \* whether the block holding the queue's lock has run
    flush_local

engVars == <<is_connecting, is_connected, ws_out, user_sender, scripts_buffer,
             scripts_pop_count, init_queries, cyclic_queries, last_query, query_count>>
connVars == <<cpc, nconn, ws, is_watchdog_refreshed, wd_armed, tpc, relay, mp, poll,
              thread_ch, user_ch, in_ch, poll_ch, err_log, open_log, nmsgs, wd_arrived,
              entered, wire>>
schedVars == <<ntick, last_tick, cycle, last_cycle, init_removed>>
dispVars == <<tag_handlers, tagname_handlers, internal_handlers,
              nframes, nevents, calls, registered, matched, fired, last_frame>>
brVars == <<mb_size, mbin, mbhd, is_mb_connected, mb_pc, mb_left, mb_start,
            mb_cycle, exch, last_exch, in_pub, in_prev, hd_pub, nset>>
lifeVars == <<life_log>>
\* what the connection lifecycle leaves alone: all of aux in most steps,
\* auxRest in the steps that life_log records
auxRest == <<schedVars, dispVars, poll_local, brVars>>
lockVars == <<mtx, hm_pc, host_pc, cbs, nregs>>
takeVars == <<mbin_input, mbhd_output, mb_thr>>
hostVars == <<ss_pc, flush_local>>
aux == <<auxRest, lifeVars, lockVars, takeVars, hostVars>>
vars == <<engVars, connVars, enqueued, schedVars, dispVars, poll_local, brVars, lifeVars,
          lockVars, takeVars, hostVars>>

Min(a, b) == IF a < b THEN a ELSE b

RECURSIVE Concat(_)
\* push_str over a list of strings
Concat(ss) == IF ss = <<>> THEN <<>> ELSE Head(ss) \o Concat(Tail(ss))

\* ------------------------------------------------------------ engine record
\* The fields a call chain below reads and writes, as one value, so that a
\* handler's sequence of statements is a composition of functions on it.
Eng ==
    [is_connecting |-> is_connecting, is_connected |-> is_connected,
     ws_out |-> ws_out, user_sender |-> user_sender,
     scripts_buffer |-> scripts_buffer, init_queries |-> init_queries,
     last_query |-> last_query, user_ch |-> user_ch, err_log |-> err_log,
     entered |-> entered]

SetEng(e) ==
    /\ is_connecting' = e.is_connecting
    /\ is_connected' = e.is_connected
    /\ ws_out' = e.ws_out
    /\ user_sender' = e.user_sender
    /\ scripts_buffer' = e.scripts_buffer
    /\ init_queries' = e.init_queries
    /\ last_query' = e.last_query
    /\ user_ch' = e.user_ch
    /\ err_log' = e.err_log
    /\ entered' = e.entered

\* The event loop of connection c is running: ws::connect has not returned.
Live(c) == ws[c] \in {"connecting", "open"}

\* client_receiver of connection c is not dropped: the Try Connection thread
\* still owns it, or the relay thread it was moved into still runs.
ReceiverAlive(c) == tpc[c] = "recv" \/ relay[c] = "run"

\* Botnana::execute_on_error_cb; c is the connection whose channel failed.
ExecuteOnErrorCb(e, c, diag) ==
    [e EXCEPT !.is_connecting = FALSE, !.is_connected = FALSE,
              !.user_sender = None, !.ws_out = None, !.scripts_buffer = <<>>,
              !.err_log[c] = Append(@, diag)]

\* The body shared by send_message and evaluate once the text is built.
SendToUser(e, m) ==
    IF e.ws_out = None THEN e
    ELSE IF e.user_sender = None THEN e
    ELSE IF ReceiverAlive(e.user_sender)
         THEN [e EXCEPT !.user_ch[e.user_sender] = Append(@, m),
                        !.entered[e.user_sender] = Append(@, m)]
         ELSE ExecuteOnErrorCb(e, e.user_sender, "send")

\* serde_json::to_value(script).to_string(): the text between double quotes,
\* each newline written as the two characters \n
JsonString(s) ==
    <<"\"">> \o [i \in 1..Len(s) |-> IF s[i] = "\n" THEN "\\n" ELSE s[i]] \o <<"\"">>

\* evaluate(): what precedes and what follows the encoded script in the command
EvalPrefix == "{\"jsonrpc\":\"2.0\",\"method\":\"script.evaluate\",\"params\":{\"script\":"
EvalSuffix == "}}"

\* evaluate(): the command text built for script
EvalText(script) == <<EvalPrefix>> \o JsonString(script) \o <<EvalSuffix>>

\* Botnana::evaluate
Evaluate(e, script) == SendToUser(e, EvalText(script))

\* Botnana::send_message
SendMessageTo(e, text) == SendToUser(e, text)

\* ---------------------------------------------------------------- scheduler
\* pop_scripts_buffer: the number of fragments one call removes
PopLen(pop_count, qlen) == Min(pop_count, qlen)

\* pop_scripts_buffer: the fragments one call removes, in the order removed
PoppedFragments(e) ==
    SubSeq(e.scripts_buffer, 1, PopLen(scripts_pop_count, Len(e.scripts_buffer)))

\* Botnana::pop_scripts_buffer
PopScriptsBuffer(e) ==
    LET len == PopLen(scripts_pop_count, Len(e.scripts_buffer))
        msg == Concat(PoppedFragments(e))
        e1 == [e EXCEPT !.scripts_buffer = SubSeq(@, len + 1, Len(@))]
    IN  Evaluate(e1, msg)

\* send_internal_query_command: where the cyclic batch ends
BatchEnd(start, count, qlen) == Min(start + count, qlen)

\* A cursor that is never taken back to the head of the list.
CursorAfter_NoWrap(end, qlen) == end

\* send_internal_query_command: the cursor stored after a cyclic batch
CursorAfter(end, qlen) == IF end = qlen THEN 0 ELSE end

\* A query branch that reads the front of the init list and leaves it there.
QueryBatch_InitKept(e) ==
    IF Len(e.init_queries) > 0
    THEN LET len == Min(Len(e.init_queries), query_count)
         IN  [len |-> len, msg |-> Concat(SubSeq(e.init_queries, 1, len)), e |-> e]
    ELSE LET start == e.last_query
             end == BatchEnd(start, query_count, Len(cyclic_queries))
         IN  [len |-> end - start,
              msg |-> Concat([i \in 1..(end - start) |-> cyclic_queries[start + i]]),
              e |-> [e EXCEPT !.last_query = CursorAfter(end, Len(cyclic_queries))]]

\* send_internal_query_command, the block holding the locks: the batch taken
\* (len, msg) and the lists after it
QueryBatch(e) ==
    IF Len(e.init_queries) > 0
    THEN LET len == Min(Len(e.init_queries), query_count)
         IN  [len |-> len,
              msg |-> Concat(SubSeq(e.init_queries, 1, len)),
              e |-> [e EXCEPT !.init_queries = SubSeq(@, len + 1, Len(@))]]
    ELSE LET start == e.last_query
             end == BatchEnd(start, query_count, Len(cyclic_queries))
         IN  [len |-> end - start,
              msg |-> Concat([i \in 1..(end - start) |-> cyclic_queries[start + i]]),
              e |-> [e EXCEPT !.last_query = CursorAfter(end, Len(cyclic_queries))]]

\* Botnana::send_internal_query_command
SendInternalQueryCommand(e) ==
    LET q == QueryBatch(e)
    IN  [q EXCEPT !.e = IF q.len > 0 THEN Evaluate(q.e, q.msg) ELSE q.e]

\* The loop body with no_command left true by the query branch.
Tick_QueryUnflagged(c) ==
    LET e0 == Eng
        had == Len(e0.scripts_buffer) > 0
        e1 == IF had THEN PopScriptsBuffer(e0) ELSE e0
        q == SendInternalQueryCommand(e1)
        no_command == ~had
    IN  [e |-> q.e, had |-> had,
         popped |-> IF had THEN PoppedFragments(e0) ELSE <<>>,
         qlen |-> q.len, qmsg |-> q.msg,
         no_command |-> no_command, brk |-> no_command /\ ~Live(c)]

\* The loop body with the query branch taken only when the script branch was not.
Tick_ElseIf(c) ==
    LET e0 == Eng
        had == Len(e0.scripts_buffer) > 0
        e1 == IF had THEN PopScriptsBuffer(e0) ELSE e0
        q == IF had THEN [len |-> 0, msg |-> <<>>, e |-> e1]
             ELSE SendInternalQueryCommand(e1)
        no_command == ~had /\ ~(q.len > 0)
    IN  [e |-> q.e, had |-> had,
         popped |-> IF had THEN PoppedFragments(e0) ELSE <<>>,
         qlen |-> q.len, qmsg |-> q.msg,
         no_command |-> no_command, brk |-> no_command /\ ~Live(c)]

\* One pass of the POLL thread's loop body after try_recv found nothing:
\* had / popped describe the script branch, qlen / qmsg the query branch,
\* no_command whether the motion.poll frame is sent, brk whether that send
\* failed (the event loop of c has ended) and the loop breaks.
Tick(c) ==
    LET e0 == Eng
        had == Len(e0.scripts_buffer) > 0
        e1 == IF had THEN PopScriptsBuffer(e0) ELSE e0
        q == SendInternalQueryCommand(e1)
        no_command == ~had /\ ~(q.len > 0)
    IN  [e |-> q.e, had |-> had,
         popped |-> IF had THEN PoppedFragments(e0) ELSE <<>>,
         qlen |-> q.len, qmsg |-> q.msg,
         no_command |-> no_command, brk |-> no_command /\ ~Live(c)]

\* The histories of the POLL thread before its first tick.
NoTick ==
    [had |-> FALSE, popped |-> <<>>, qlen |-> 0, no_command |-> FALSE,
     pre_buffer |-> <<>>, post_buffer |-> <<>>, pre_init |-> <<>>,
     post_init |-> <<>>, pre_cursor |-> 0, post_cursor |-> 0, sent |-> <<>>]
NoCycle == [sent |-> <<>>, ticks |-> 0]

\* A POLL thread that is not between the two halves of pop_scripts_buffer
NoBatch == [popped |-> FALSE, msg |-> <<>>]

\* A HashMap with no entry
EmptyMap == [k \in {} |-> <<>>]

\* The history of the dispatcher before any frame
NoFrame == [k |-> 0, nreg |-> 0]

\* The dispatcher before any frame, with no handler registered
InitDisp ==
    /\ tag_handlers = EmptyMap
    /\ tagname_handlers = EmptyMap
    /\ internal_handlers = {}
    /\ nframes = 0
    /\ nevents = 0
    /\ calls = <<>>
    /\ registered = <<>>
    /\ matched = <<>>
    /\ fired = <<>>
    /\ last_frame = NoFrame

\* ---------------------------------------------------------- register slots
\* Botnana::new, lines 103-104: a block of MB_BLOCK_SIZE words, all 0; the
\* words are numbered from 0
Template(B) == [i \in 0..(B - 1) |-> 0]

\* TripleBuffer::new(&template).split(): three copies of the template, one
\* with the writer (input), one with the reader (output), one in between
\* (back), and no snapshot waiting
TripleBufferNew(t) ==
    [buf |-> <<t, t, t>>, input |-> 1, back |-> 2, output |-> 3, dirty |-> FALSE]

\* Input::input_buffer and Output::output_buffer
InputBuffer(tb) == tb.buf[tb.input]
OutputBuffer(tb) == tb.buf[tb.output]

\* A publish that swaps the buffers and does not flag the snapshot as new.
Publish_Unflagged(tb) == [tb EXCEPT !.input = tb.back, !.back = tb.input]

\* Input::publish: the buffer just written and the one in between change
\* places in one atomic step, and the snapshot is flagged as new
Publish(tb) == [tb EXCEPT !.input = tb.back, !.back = tb.input, !.dirty = TRUE]

\* Output::update: if a snapshot is waiting, it and the reader's buffer
\* change places in one atomic step
Update(tb) ==
    IF tb.dirty
    THEN [tb EXCEPT !.output = tb.back, !.back = tb.output, !.dirty = FALSE]
    ELSE tb

\* An Option that still holds its value after take().
Take_Kept(opt) == [got |-> opt, left |-> opt]

\* Option::take, lines 806 and 812: what the caller gets (TRUE for Some) and
\* what the Option holds afterwards
Take(opt) == [got |-> opt, left |-> FALSE]

\* A loop that takes up to 125 words, the limit of a read, in one exchange.
ChunkCnt_ReadLimit(l) == IF l > 125 THEN 125 ELSE l

\* mb_connect, lines 841-847: the words of the next exchange
ChunkCnt(l) == IF l > MaxChunk THEN MaxChunk ELSE l

\* A loop that leaves for the publish after its first exchange.
WhileLeft_PublishEach(l) == "publish"

\* mb_connect, line 840: the test of the while loop, and where it leads
WhileLeft(l) == IF l > 0 THEN "chunk" ELSE "publish"

\* base + start as u16, in 16 bits
Addr(base, s) == (base + (s % 65536)) % 65536

\* &buffer[s..s + n]
Slice(buffer, s, n) == [i \in 1..n |-> buffer[s + i - 1]]

\* buffer.get_mut(s..s + Len(words)).copy_from_slice(words)
CopyFromSlice(buffer, s, words) ==
    [i \in DOMAIN buffer |->
        IF i >= s /\ i < s + Len(words) THEN words[i - s + 1] ELSE buffer[i]]

\* What the server's input registers hold during cycle n of the Modbus
\* thread: n in every word
ServerInputs(n, cnt) == [i \in 1..cnt |-> n]

\* The engine after Botnana::new of a build with MB_BLOCK_SIZE = B, before
\* mb_connect
InitBridge(B) ==
    /\ mb_size = B
    /\ mbin = TripleBufferNew(Template(B))
    /\ mbhd = TripleBufferNew(Template(B))
    /\ is_mb_connected = FALSE
    /\ mb_pc = "idle"
    /\ mb_left = 0
    /\ mb_start = 0
    /\ mb_cycle = 0
    /\ exch = <<>>
    /\ last_exch = <<>>
    /\ in_pub = Template(B)
    /\ in_prev = Template(B)
    /\ hd_pub = Template(B)
    /\ nset = 0
    /\ mbin_input = TRUE
    /\ mbhd_output = TRUE
    /\ ss_pc = "idle"
    /\ flush_local = NoBatch
    /\ mb_thr = [t \in 1..MaxMbCalls |-> "idle"]

\* ------------------------------------------------------------------- locks
\* The Mutexes handle_message locks, by field; the registering function that
\* locks each is set_on_message_cb, set_tagname_callback, set_tag_callback.
Mutexes == {"on_message_cb", "tagname_handlers", "tag_handlers"}

\* No thread is inside handle_message or a registering function, and no
\* callback is registered.
InitLockVars ==
    /\ mtx = [x \in Mutexes |-> "free"]
    /\ hm_pc = "recv"
    /\ host_pc = "idle"
    /\ cbs = {}
    /\ nregs = 0

\* ------------------------------------------------------- connection lifecycle
\* The steps life_log records, in the order of a handshake that succeeds:
\* on_open, then lines 282, 351 and 353 of the Try Connection thread
HandshakeSteps == <<"handshake", "store", "connected", "open_cb">>

\* life_log with one more step of connection c
Logged(c, step) == [life_log EXCEPT ![c] = Append(@, step)]

cfgVars == <<scripts_pop_count, cyclic_queries, query_count>>
wdVars == <<is_watchdog_refreshed, wd_armed, wd_arrived>>

InitEngine ==
    /\ is_connecting = FALSE
    /\ is_connected = FALSE
    /\ ws_out = None
    /\ user_sender = None
    /\ scripts_buffer = <<>>
    /\ scripts_pop_count = DefaultPopCount
    /\ init_queries = <<>>
    /\ cyclic_queries = <<>>
    /\ last_query = 0
    /\ query_count = DefaultQueryCount

InitConn ==
    /\ cpc = [t \in Callers |-> "idle"]
    /\ nconn = 0
    /\ ws = [c \in Conns |-> "idle"]
    /\ is_watchdog_refreshed = [c \in Conns |-> FALSE]
    /\ wd_armed = [c \in Conns |-> FALSE]
    /\ wd_arrived = [c \in Conns |-> FALSE]
    /\ tpc = [c \in Conns |-> "idle"]
    /\ relay = [c \in Conns |-> "idle"]
    /\ mp = [c \in Conns |-> "idle"]
    /\ poll = [c \in Conns |-> "idle"]
    /\ thread_ch = [c \in Conns |-> FALSE]
    /\ user_ch = [c \in Conns |-> <<>>]
    /\ in_ch = [c \in Conns |-> 0]
    /\ poll_ch = [c \in Conns |-> FALSE]
    /\ err_log = [c \in Conns |-> <<>>]
    /\ entered = [c \in Conns |-> <<>>]
    /\ wire = [c \in Conns |-> <<>>]
    /\ open_log = [c \in Conns |-> 0]
    /\ nmsgs = 0

\* connect(), line 209: the test of is_connecting.  Its guard is released
\* before line 212 locks again.  A call that finds the flag set returns and
\* changes nothing.
ConnectCheck(t) ==
    /\ cpc[t] = "idle"
    /\ nconn + Cardinality({u \in Callers : cpc[u] = "start"}) < MaxConn
    /\ ~is_connecting
    /\ cpc' = [cpc EXCEPT ![t] = "start"]
    /\ UNCHANGED <<engVars, nconn, ws, wdVars, tpc, relay, mp, poll, thread_ch,
                   user_ch, in_ch, poll_ch, err_log, open_log, nmsgs, enqueued, aux,
                   entered, wire>>

\* connect(), lines 212-356: set the flag, make the channels, store
\* user_sender, spawn Try Connection, which spawns WS_CLIENT.
ConnectStart(t) ==
    /\ cpc[t] = "start"
    /\ cpc' = [cpc EXCEPT ![t] = "idle"]
    /\ is_connecting' = TRUE
    /\ nconn' = nconn + 1
    /\ user_sender' = nconn + 1
    /\ ws' = [ws EXCEPT ![nconn + 1] = "connecting"]
    /\ tpc' = [tpc EXCEPT ![nconn + 1] = "recv"]
    /\ UNCHANGED <<is_connected, ws_out, scripts_buffer, scripts_pop_count,
                   init_queries, cyclic_queries, last_query, query_count,
                   wdVars, relay, mp, poll, thread_ch, user_ch, in_ch, poll_ch,
                   err_log, open_log, nmsgs, enqueued, aux,
                   entered, wire>>

\* send_message
SendMessage ==
    /\ nmsgs < MaxMsgs
    /\ nmsgs' = nmsgs + 1
    /\ SetEng(SendMessageTo(Eng, <<"m">>))
    /\ UNCHANGED <<cfgVars, cpc, nconn, ws, wdVars, tpc, relay, mp, poll,
                   thread_ch, in_ch, poll_ch, open_log, enqueued, wire, aux>>

\* has_ws_sender
HasWsSender == ws_out # None

\* send_script_to_buffer: a call without a send handle changes nothing
SendScriptToBuffer(script) ==
    /\ HasWsSender
    /\ enqueued' = Append(enqueued, script \o <<"\n">>)
    /\ scripts_buffer' = Append(scripts_buffer, script \o <<"\n">>)
    /\ UNCHANGED <<is_connecting, is_connected, ws_out, user_sender,
                   scripts_pop_count, init_queries, cyclic_queries, last_query,
                   query_count, connVars, aux>>

\* ---- the WS_CLIENT thread: the event loop (Client's handlers), then cleanup

\* Client::execute_on_error_cb
ClientErrorCb(c, diag) == err_log' = [err_log EXCEPT ![c] = Append(@, diag)]

\* The event loop ends: ws::connect returns and the Client it owned is
\* dropped with its watchdog flag and its timeout.
EndLoop(c) ==
    /\ ws' = [ws EXCEPT ![c] = "exit_user_sender"]
    /\ is_watchdog_refreshed' = [is_watchdog_refreshed EXCEPT ![c] = FALSE]
    /\ wd_armed' = [wd_armed EXCEPT ![c] = FALSE]
    /\ wd_arrived' = [wd_arrived EXCEPT ![c] = FALSE]

\* ws::connect returns Err before a handler exists; line 242 drops the result.
WsConnectErr(c) ==
    /\ ws[c] = "connecting"
    /\ EndLoop(c)
    /\ UNCHANGED <<engVars, cpc, nconn, tpc, relay, mp, poll, thread_ch,
                   user_ch, in_ch, poll_ch, err_log, open_log, nmsgs, enqueued, aux,
                   entered, wire>>

\* Client::on_error while the handshake is in progress
WsHandshakeError(c) ==
    /\ ws[c] = "connecting"
    /\ ClientErrorCb(c, "error")
    /\ EndLoop(c)
    /\ UNCHANGED <<engVars, cpc, nconn, tpc, relay, mp, poll, thread_ch,
                   user_ch, in_ch, poll_ch, open_log, nmsgs, enqueued, aux,
                   entered, wire>>

\* Client::on_open
WsOpen(c) ==
    /\ ws[c] = "connecting"
    /\ ws' = [ws EXCEPT ![c] = "open"]
    /\ wd_armed' = [wd_armed EXCEPT ![c] = TRUE]
    /\ thread_ch' = [thread_ch EXCEPT ![c] = TRUE]
    /\ life_log' = Logged(c, "handshake")
    /\ UNCHANGED <<engVars, cpc, nconn, is_watchdog_refreshed, wd_arrived, tpc,
                   relay, mp, poll, user_ch, in_ch, poll_ch, err_log, open_log,
                   nmsgs, enqueued, auxRest, lockVars, takeVars, hostVars,
                   entered, wire>>

\* on_message leaving the watchdog flag as it was
RefreshedOnMessage_Kept(c) == is_watchdog_refreshed[c]

\* Client::on_message, line 988: the value stored in is_watchdog_refreshed
RefreshedOnMessage(c) == TRUE

\* Client::on_message, a non-empty text frame
WsMessage(c) ==
    /\ ws[c] = "open"
    /\ in_ch[c] < MaxIn
    /\ is_watchdog_refreshed' = [is_watchdog_refreshed EXCEPT ![c] = RefreshedOnMessage(c)]
    /\ wd_arrived' = [wd_arrived EXCEPT ![c] = TRUE]
    /\ in_ch' = [in_ch EXCEPT ![c] = @ + 1]
    /\ UNCHANGED <<engVars, cpc, nconn, ws, wd_armed, tpc, relay, mp, poll,
                   thread_ch, user_ch, poll_ch, err_log, open_log, nmsgs,
                   enqueued, aux,
                   entered, wire>>

\* Client::on_timeout
WsTimeout(c) ==
    /\ ws[c] = "open"
    /\ wd_armed[c]
    /\ IF ~is_watchdog_refreshed[c]
       THEN /\ ClientErrorCb(c, "timeout")
            /\ EndLoop(c)
       ELSE /\ is_watchdog_refreshed' = [is_watchdog_refreshed EXCEPT ![c] = FALSE]
            /\ wd_arrived' = [wd_arrived EXCEPT ![c] = FALSE]
            /\ UNCHANGED <<err_log, ws, wd_armed>>
    /\ UNCHANGED <<engVars, cpc, nconn, tpc, relay, mp, poll, thread_ch, user_ch,
                   in_ch, poll_ch, open_log, nmsgs, enqueued, aux,
                   entered, wire>>

\* Client::on_error on an open connection
WsError(c) ==
    /\ ws[c] = "open"
    /\ ClientErrorCb(c, "error")
    /\ EndLoop(c)
    /\ UNCHANGED <<engVars, cpc, nconn, tpc, relay, mp, poll, thread_ch,
                   user_ch, in_ch, poll_ch, open_log, nmsgs, enqueued, aux,
                   entered, wire>>

\* Client::on_close
WsClose(c) ==
    /\ ws[c] = "open"
    /\ ClientErrorCb(c, "close")
    /\ EndLoop(c)
    /\ UNCHANGED <<engVars, cpc, nconn, tpc, relay, mp, poll, thread_ch,
                   user_ch, in_ch, poll_ch, open_log, nmsgs, enqueued, aux,
                   entered, wire>>

\* The statements after ws::connect returns, lines 250-257, one lock each.
WsExitUserSender(c) ==
    /\ ws[c] = "exit_user_sender"
    /\ user_sender' = None
    /\ ws' = [ws EXCEPT ![c] = "exit_ws_out"]
    /\ UNCHANGED <<is_connecting, is_connected, ws_out, scripts_buffer,
                   scripts_pop_count, init_queries, cyclic_queries, last_query,
                   query_count, cpc, nconn, wdVars, tpc, relay, mp, poll,
                   thread_ch, user_ch, in_ch, poll_ch, err_log, open_log, nmsgs,
                   enqueued, aux,
                   entered, wire>>

WsExitWsOut(c) ==
    /\ ws[c] = "exit_ws_out"
    /\ ws_out' = None
    /\ ws' = [ws EXCEPT ![c] = "exit_scripts"]
    /\ UNCHANGED <<is_connecting, is_connected, user_sender, scripts_buffer,
                   scripts_pop_count, init_queries, cyclic_queries, last_query,
                   query_count, cpc, nconn, wdVars, tpc, relay, mp, poll,
                   thread_ch, user_ch, in_ch, poll_ch, err_log, open_log, nmsgs,
                   enqueued, aux,
                   entered, wire>>

WsExitScripts(c) ==
    /\ ws[c] = "exit_scripts"
    /\ scripts_buffer' = <<>>
    /\ ws' = [ws EXCEPT ![c] = "exit_connecting"]
    /\ UNCHANGED <<is_connecting, is_connected, ws_out, user_sender,
                   scripts_pop_count, init_queries, cyclic_queries, last_query,
                   query_count, cpc, nconn, wdVars, tpc, relay, mp, poll,
                   thread_ch, user_ch, in_ch, poll_ch, err_log, open_log, nmsgs,
                   enqueued, aux,
                   entered, wire>>

WsExitConnecting(c) ==
    /\ ws[c] = "exit_connecting"
    /\ is_connecting' = FALSE
    /\ ws' = [ws EXCEPT ![c] = "exit_connected"]
    /\ UNCHANGED <<is_connected, ws_out, user_sender, scripts_buffer,
                   scripts_pop_count, init_queries, cyclic_queries, last_query,
                   query_count, cpc, nconn, wdVars, tpc, relay, mp, poll,
                   thread_ch, user_ch, in_ch, poll_ch, err_log, open_log, nmsgs,
                   enqueued, aux,
                   entered, wire>>

\* a WS_CLIENT thread that loops back into ws::connect after its cleanup
AfterCleanup_Retry(c) ==
    [ws |-> [ws EXCEPT ![c] = "connecting"], nconn |-> nconn,
     tpc |-> [tpc EXCEPT ![c] = "recv"]]

\* The WS_CLIENT thread after its last statement, line 257: it ends; no
\* connection is made and no thread is started.
AfterCleanup(c) == [ws |-> [ws EXCEPT ![c] = "done"], nconn |-> nconn, tpc |-> tpc]

WsExitConnected(c) ==
    /\ ws[c] = "exit_connected"
    /\ is_connected' = FALSE
    /\ ws' = AfterCleanup(c).ws
    /\ nconn' = AfterCleanup(c).nconn
    /\ tpc' = AfterCleanup(c).tpc
    /\ UNCHANGED <<is_connecting, ws_out, user_sender, scripts_buffer,
                   scripts_pop_count, init_queries, cyclic_queries, last_query,
                   query_count, cpc, wdVars, relay, mp, poll,
                   thread_ch, user_ch, in_ch, poll_ch, err_log, open_log, nmsgs,
                   enqueued, aux,
                   entered, wire>>

\* ---- the Try Connection thread, lines 265-354

\* thread_rx.recv(): Ok with the sender on_open posted (the relay thread is
\* then spawned, lines 268-280), Err once the event loop has ended without.
TryRecv(c) ==
    /\ tpc[c] = "recv"
    /\ IF thread_ch[c]
       THEN /\ thread_ch' = [thread_ch EXCEPT ![c] = FALSE]
            /\ relay' = [relay EXCEPT ![c] = "run"]
            /\ tpc' = [tpc EXCEPT ![c] = "store"]
       ELSE /\ ~Live(c)
            /\ tpc' = [tpc EXCEPT ![c] = "done"]
            /\ UNCHANGED <<thread_ch, relay>>
    /\ UNCHANGED <<engVars, cpc, nconn, ws, wdVars, mp, poll, user_ch, in_ch,
                   poll_ch, err_log, open_log, nmsgs, enqueued, aux,
                   entered, wire>>

\* A Try Connection thread that goes from line 282 to the callback of line
\* 353 and leaves out line 351.
TryStore_CallbackFirst(c) ==
    /\ tpc[c] = "store"
    /\ ws_out' = c
    /\ mp' = [mp EXCEPT ![c] = "run"]
    /\ poll' = [poll EXCEPT ![c] = "run"]
    /\ tpc' = [tpc EXCEPT ![c] = "open_cb"]
    /\ life_log' = Logged(c, "store")
    /\ UNCHANGED <<is_connecting, is_connected, user_sender, scripts_buffer,
                   scripts_pop_count, init_queries, cyclic_queries, last_query,
                   query_count, cpc, nconn, ws, wdVars, relay, thread_ch,
                   user_ch, in_ch, poll_ch, err_log, open_log, nmsgs, enqueued,
                   auxRest, lockVars, takeVars, hostVars,
                   entered, wire>>

\* line 282, then the spawns of MESSAGE_PROCESSOR and POLL
TryStore(c) ==
    /\ tpc[c] = "store"
    /\ ws_out' = c
    /\ mp' = [mp EXCEPT ![c] = "run"]
    /\ poll' = [poll EXCEPT ![c] = "run"]
    /\ tpc' = [tpc EXCEPT ![c] = "set_connected"]
    /\ life_log' = Logged(c, "store")
    /\ UNCHANGED <<is_connecting, is_connected, user_sender, scripts_buffer,
                   scripts_pop_count, init_queries, cyclic_queries, last_query,
                   query_count, cpc, nconn, ws, wdVars, relay, thread_ch,
                   user_ch, in_ch, poll_ch, err_log, open_log, nmsgs, enqueued,
                   auxRest, lockVars, takeVars, hostVars,
                   entered, wire>>

\* line 351
TrySetConnected(c) ==
    /\ tpc[c] = "set_connected"
    /\ is_connected' = TRUE
    /\ tpc' = [tpc EXCEPT ![c] = "open_cb"]
    /\ life_log' = Logged(c, "connected")
    /\ UNCHANGED <<is_connecting, ws_out, user_sender, scripts_buffer,
                   scripts_pop_count, init_queries, cyclic_queries, last_query,
                   query_count, cpc, nconn, ws, wdVars, relay, mp, poll, thread_ch,
                   user_ch, in_ch, poll_ch, err_log, open_log, nmsgs, enqueued,
                   auxRest, lockVars, takeVars, hostVars,
                   entered, wire>>

\* line 353: execute_on_open_cb
TryOpenCb(c) ==
    /\ tpc[c] = "open_cb"
    /\ open_log' = [open_log EXCEPT ![c] = @ + 1]
    /\ tpc' = [tpc EXCEPT ![c] = "done"]
    /\ life_log' = Logged(c, "open_cb")
    /\ UNCHANGED <<engVars, cpc, nconn, ws, wdVars, relay, mp, poll, thread_ch,
                   user_ch, in_ch, poll_ch, err_log, nmsgs, enqueued, auxRest, lockVars, takeVars, hostVars,
                   entered, wire>>

\* ---- the relay thread, lines 268-280

\* A relay that writes the frame at the head of the channel and leaves it there.
RelaySend_Peek(c) ==
    /\ relay[c] = "run"
    /\ user_ch[c] # <<>>
    /\ Live(c)
    /\ wire' = [wire EXCEPT ![c] = Append(@, Head(user_ch[c]))]
    /\ UNCHANGED <<is_connecting, is_connected, ws_out, user_sender, scripts_buffer,
                   scripts_pop_count, init_queries, cyclic_queries, last_query,
                   query_count, cpc, nconn, ws, wdVars, tpc, relay, mp, poll,
                   thread_ch, in_ch, poll_ch, err_log, open_log, nmsgs, enqueued,
                   entered, user_ch, aux>>

\* recv Ok, ws_out.send Ok
RelaySend(c) ==
    /\ relay[c] = "run"
    /\ user_ch[c] # <<>>
    /\ Live(c)
    /\ user_ch' = [user_ch EXCEPT ![c] = Tail(@)]
    /\ wire' = [wire EXCEPT ![c] = Append(@, Head(user_ch[c]))]
    /\ UNCHANGED <<is_connecting, is_connected, ws_out, user_sender, scripts_buffer,
                   scripts_pop_count, init_queries, cyclic_queries, last_query,
                   query_count, cpc, nconn, ws, wdVars, tpc, relay, mp, poll,
                   thread_ch, in_ch, poll_ch, err_log, open_log, nmsgs, enqueued,
                   entered, aux>>

\* recv Ok, ws_out.send Err (the event loop has ended): break, which drops
\* client_receiver and what it still holds
RelayFail(c) ==
    /\ relay[c] = "run"
    /\ user_ch[c] # <<>>
    /\ ~Live(c)
    /\ relay' = [relay EXCEPT ![c] = "done"]
    /\ user_ch' = [user_ch EXCEPT ![c] = <<>>]
    /\ UNCHANGED <<is_connecting, is_connected, ws_out, user_sender, scripts_buffer,
                   scripts_pop_count, init_queries, cyclic_queries, last_query,
                   query_count, cpc, nconn, ws, wdVars, tpc, mp, poll,
                   thread_ch, in_ch, poll_ch, err_log, open_log, nmsgs, enqueued,
                   entered, wire, aux>>

\* recv Err: the channel is empty and its only sender, the one stored in
\* user_sender by this connection's connect(), is gone
RelayClosed(c) ==
    /\ relay[c] = "run"
    /\ user_ch[c] = <<>>
    /\ user_sender # c
    /\ relay' = [relay EXCEPT ![c] = "done"]
    /\ UNCHANGED <<engVars, cpc, nconn, ws, wdVars, tpc, mp, poll, thread_ch,
                   user_ch, in_ch, poll_ch, err_log, open_log, nmsgs, enqueued, aux,
                   entered, wire>>

\* ---- the MESSAGE_PROCESSOR thread, lines 285-301

\* recv Ok: handle_message.  No handler is registered in this specification,
\* so the frame invokes nothing.
MpRecv(c) ==
    /\ mp[c] = "run"
    /\ in_ch[c] > 0
    /\ in_ch' = [in_ch EXCEPT ![c] = @ - 1]
    /\ UNCHANGED <<engVars, cpc, nconn, ws, wdVars, tpc, relay, mp, poll,
                   thread_ch, user_ch, poll_ch, err_log, open_log, nmsgs,
                   enqueued, aux,
                   entered, wire>>

\* recv Err (client_sender went with the event loop): wake the relay through
\* whatever user_sender holds now, post to poll_sender, break
MpExit(c) ==
    /\ mp[c] = "run"
    /\ in_ch[c] = 0
    /\ ~Live(c)
    /\ user_ch' = IF user_sender # None /\ ReceiverAlive(user_sender)
                  THEN [user_ch EXCEPT ![user_sender] =
                            Append(@, <<" ">>)]
                  ELSE user_ch
    /\ entered' = IF user_sender # None /\ ReceiverAlive(user_sender)
                  THEN [entered EXCEPT ![user_sender] =
                            Append(@, <<" ">>)]
                  ELSE entered
    /\ poll_ch' = [poll_ch EXCEPT ![c] = TRUE]
    /\ mp' = [mp EXCEPT ![c] = "done"]
    /\ UNCHANGED <<engVars, cpc, nconn, ws, wdVars, tpc, relay, poll, thread_ch,
                   in_ch, err_log, open_log, nmsgs, enqueued, wire, aux>>

\* ---- the POLL thread, lines 312-347

\* try_recv found the dispatcher's message: break
PollStop(c) ==
    /\ poll[c] = "run"
    /\ poll_ch[c]
    /\ poll_ch' = [poll_ch EXCEPT ![c] = FALSE]
    /\ poll' = [poll EXCEPT ![c] = "done"]
    /\ UNCHANGED <<engVars, cpc, nconn, ws, wdVars, tpc, relay, mp, thread_ch,
                   user_ch, in_ch, err_log, open_log, nmsgs, enqueued, aux,
                   entered, wire>>

\* try_recv found nothing: one tick
PollTickBody(c) ==
    /\ poll[c] = "run"
    /\ ~poll_ch[c]
    /\ SetEng(Tick(c).e)
    /\ poll' = IF Tick(c).brk THEN [poll EXCEPT ![c] = "done"] ELSE poll
    /\ UNCHANGED <<cfgVars, cpc, nconn, ws, wdVars, tpc, relay, mp, thread_ch,
                   in_ch, poll_ch, open_log, nmsgs, enqueued, wire>>

PollTick(c) == PollTickBody(c) /\ UNCHANGED aux

Init ==
    /\ InitEngine
    /\ InitConn
    /\ enqueued = <<>>
    /\ ntick = 0 /\ last_tick = NoTick
    /\ cycle = NoCycle /\ last_cycle = NoCycle
    /\ init_removed = <<>>
    /\ poll_local = [c \in Conns |-> NoBatch]
    /\ life_log = [c \in Conns |-> <<>>]
    /\ InitLockVars
    /\ InitDisp
    /\ InitBridge(MinBlock)

\* Spec: the lifecycle of the engine's first connection, with its traffic.
Next ==
    \/ \E t \in Callers :
        \/ nconn = 0 /\ (\A u \in Callers : cpc[u] = "idle") /\ ConnectCheck(t)
        \/ ConnectStart(t)
    \/ SendMessage
    \/ /\ Len(enqueued) < MaxLifeScripts
       /\ SendScriptToBuffer(<<ScriptNames[Len(enqueued) + 1]>>)
    \/ \E c \in Conns :
        \/ WsConnectErr(c) \/ WsHandshakeError(c) \/ WsOpen(c)
        \/ WsMessage(c) \/ WsTimeout(c) \/ WsError(c) \/ WsClose(c)
        \/ WsExitUserSender(c) \/ WsExitWsOut(c) \/ WsExitScripts(c)
        \/ WsExitConnecting(c) \/ WsExitConnected(c)
        \/ TryRecv(c) \/ TryStore(c) \/ TrySetConnected(c) \/ TryOpenCb(c)
        \/ RelaySend(c) \/ RelayFail(c) \/ RelayClosed(c)
        \/ MpRecv(c) \/ MpExit(c)
        \/ PollStop(c) \/ PollTick(c)

Spec == Init /\ [][Next]_vars

\* SpecConnect: connect() from two threads, over and over, with the handshake,
\* the cleanup and the workers of each connection, and no traffic.
NextConnect ==
    \/ \E t \in Callers : ConnectCheck(t) \/ ConnectStart(t)
    \/ \E c \in Conns :
        \/ WsConnectErr(c) \/ WsHandshakeError(c) \/ WsOpen(c) \/ WsClose(c)
        \/ WsExitUserSender(c) \/ WsExitWsOut(c) \/ WsExitScripts(c)
        \/ WsExitConnecting(c) \/ WsExitConnected(c)
        \/ TryRecv(c) \/ TryStore(c) \/ TrySetConnected(c) \/ TryOpenCb(c)
        \/ RelayClosed(c) \/ MpExit(c) \/ PollStop(c) \/ PollTick(c)

SpecConnect == Init /\ [][NextConnect]_vars

\* The state connect() leaves once the handshake succeeded: lines 212-353 ran,
\* the Try Connection thread ended, nothing was sent or received yet.
InitEstablished ==
    /\ is_connecting = TRUE
    /\ is_connected = TRUE
    /\ ws_out = 1
    /\ user_sender = 1
    /\ scripts_buffer = <<>>
    /\ last_query = 0
    /\ cpc = [t \in Callers |-> "idle"]
    /\ nconn = 1
    /\ ws = [c \in Conns |-> IF c = 1 THEN "open" ELSE "idle"]
    /\ is_watchdog_refreshed = [c \in Conns |-> FALSE]
    /\ wd_armed = [c \in Conns |-> c = 1]
    /\ wd_arrived = [c \in Conns |-> FALSE]
    /\ tpc = [c \in Conns |-> IF c = 1 THEN "done" ELSE "idle"]
    /\ relay = [c \in Conns |-> IF c = 1 THEN "run" ELSE "idle"]
    /\ mp = [c \in Conns |-> IF c = 1 THEN "run" ELSE "idle"]
    /\ poll = [c \in Conns |-> IF c = 1 THEN "run" ELSE "idle"]
    /\ thread_ch = [c \in Conns |-> FALSE]
    /\ user_ch = [c \in Conns |-> <<>>]
    /\ in_ch = [c \in Conns |-> 0]
    /\ poll_ch = [c \in Conns |-> FALSE]
    /\ err_log = [c \in Conns |-> <<>>]
    /\ entered = [c \in Conns |-> <<>>]
    /\ wire = [c \in Conns |-> <<>>]
    /\ open_log = [c \in Conns |-> IF c = 1 THEN 1 ELSE 0]
    /\ nmsgs = 0
    /\ enqueued = <<>>
    /\ ntick = 0 /\ last_tick = NoTick
    /\ cycle = NoCycle /\ last_cycle = NoCycle
    /\ init_removed = <<>>
    /\ poll_local = [c \in Conns |-> NoBatch]
    /\ life_log = [c \in Conns |-> IF c = 1 THEN HandshakeSteps ELSE <<>>]
    /\ InitLockVars
    /\ InitBridge(MinBlock)

\* ------------------------------------------------- SpecSched: the POLL tick
\* The engine with its first connection established (connect() returned,
\* on_open ran, the Try Connection thread ended after line 353), and the
\* pop count, the query batch size and the two query lists as the host and
\* the crate's other modules may have set them.
InitSched ==
    /\ InitEstablished
    /\ scripts_pop_count \in 0..MaxPopCount
    /\ query_count \in 1..MaxQueryCount
    /\ init_queries \in {[i \in 1..n |-> <<InitNames[i]>>] : n \in 0..MaxInit}
    /\ cyclic_queries \in {[i \in 1..n |-> <<CyclicNames[i]>>] : n \in 0..MaxCyclic}
    /\ InitDisp

\* One tick of the POLL thread of connection 1, with the history of what it
\* found (pre_*), what it removed and what it put into the outbound channel.
SchedTick ==
    /\ ntick < MaxTicks
    /\ PollTickBody(1)
    /\ ntick' = ntick + 1
    /\ last_tick' =
        [had |-> Tick(1).had, popped |-> Tick(1).popped,
         qlen |-> Tick(1).qlen, no_command |-> Tick(1).no_command,
         pre_buffer |-> scripts_buffer, post_buffer |-> scripts_buffer',
         pre_init |-> init_queries, post_init |-> init_queries',
         pre_cursor |-> last_query, post_cursor |-> last_query',
         sent |-> SubSeq(user_ch'[1], Len(user_ch[1]) + 1, Len(user_ch'[1]))]
    /\ IF init_queries = <<>>
       THEN LET batch == [i \in 1..Tick(1).qlen |-> last_query + i]
            IN  IF last_query' = 0
                THEN /\ last_cycle' = [sent |-> cycle.sent \o batch,
                                       ticks |-> cycle.ticks + 1]
                     /\ cycle' = NoCycle
                ELSE /\ cycle' = [sent |-> cycle.sent \o batch,
                                  ticks |-> cycle.ticks + 1]
                     /\ UNCHANGED last_cycle
       ELSE UNCHANGED <<cycle, last_cycle>>
    /\ init_removed' =
           init_removed \o SubSeq(init_queries, 1, Len(init_queries) - Len(init_queries'))
    /\ UNCHANGED <<dispVars, poll_local, brVars, lifeVars, lockVars, takeVars, hostVars>>

\* send_script_to_buffer with the next script text
SchedSendScript ==
    /\ Len(enqueued) < MaxScripts
    /\ SendScriptToBuffer(<<ScriptNames[Len(enqueued) + 1]>>)

NextSched == SchedTick \/ SchedSendScript

SpecSched == InitSched /\ [][NextSched]_vars

\* ------------------ SpecPoll: the POLL tick up to the end of its connection
\* SpecSched followed by the close of connection 1: on_close, the cleanup of
\* the WS_CLIENT thread statement by statement, the exit of MESSAGE_PROCESSOR
\* and the POLL thread's break, with ticks in between.
InitPoll ==
    /\ InitEstablished
    /\ scripts_pop_count \in {0, DefaultPopCount}
    /\ query_count \in {1, DefaultQueryCount}
    /\ init_queries \in {[i \in 1..n |-> <<InitNames[i]>>] : n \in 0..MaxInit}
    /\ cyclic_queries \in {<<>>, <<<<CyclicNames[1]>>>>}
    /\ InitDisp

NextPoll ==
    \/ SchedTick
    \/ SchedSendScript
    \/ WsClose(1)
    \/ WsExitUserSender(1) \/ WsExitWsOut(1) \/ WsExitScripts(1)
    \/ WsExitConnecting(1) \/ WsExitConnected(1)
    \/ MpExit(1)
    \/ PollStop(1)

SpecPoll == InitPoll /\ [][NextPoll]_vars

\* ------------------------- SpecOverlap: the POLL threads of two connections
\* pop_scripts_buffer in the POLL thread of c, lines 432-442: try_recv found
\* nothing, the queue is not empty, and the block holding its lock takes the
\* batch.  The lock is released at line 442, before evaluate.
PollPop(c) ==
    /\ poll[c] = "run"
    /\ ~poll_ch[c]
    /\ ~poll_local[c].popped
    /\ Len(scripts_buffer) > 0
    /\ poll_local' = [poll_local EXCEPT ![c] =
                        [popped |-> TRUE, msg |-> Concat(PoppedFragments(Eng))]]
    /\ scripts_buffer' =
           SubSeq(scripts_buffer, PopLen(scripts_pop_count, Len(scripts_buffer)) + 1,
                  Len(scripts_buffer))
    /\ UNCHANGED <<is_connecting, is_connected, ws_out, user_sender,
                   scripts_pop_count, init_queries, cyclic_queries, last_query,
                   query_count, connVars, enqueued, schedVars, dispVars, brVars,
                   lifeVars, lockVars, takeVars, hostVars>>

\* The rest of that tick, lines 443 and 337-345: evaluate the batch, then the
\* query branch; a command was sent, so no motion.poll frame
PollEval(c) ==
    /\ poll[c] = "run"
    /\ poll_local[c].popped
    /\ SetEng(SendInternalQueryCommand(Evaluate(Eng, poll_local[c].msg)).e)
    /\ poll_local' = [poll_local EXCEPT ![c] = NoBatch]
    /\ UNCHANGED <<cfgVars, cpc, nconn, ws, wdVars, tpc, relay, mp, poll, thread_ch,
                   in_ch, poll_ch, open_log, nmsgs, enqueued, wire, schedVars, dispVars,
                   brVars, lifeVars, lockVars, takeVars, hostVars>>

\* connect() from two threads, the handshakes, the workers, scripts from the
\* host, and every POLL thread's tick in its two halves.
NextOverlap ==
    \/ \E t \in Callers : ConnectCheck(t) \/ ConnectStart(t)
    \/ /\ Len(enqueued) < MaxScripts
       /\ SendScriptToBuffer(<<ScriptNames[Len(enqueued) + 1]>>)
    \/ \E c \in Conns :
        \/ WsOpen(c)
        \/ TryRecv(c) \/ TryStore(c) \/ TrySetConnected(c) \/ TryOpenCb(c)
        \/ PollPop(c) \/ PollEval(c)

SpecOverlap == Init /\ [][NextOverlap]_vars

\* ------------------------------------------------ SpecDisp: handle_message
\* Text is a sequence of one-character strings.

\* HashMap::remove
MapRemove(m, k) == [x \in (DOMAIN m) \ {k} |-> m[x]]

\* HashMap::insert
MapPut(m, k, v) == [x \in (DOMAIN m) \cup {k} |-> IF x = k THEN v ELSE m[x]]

RECURSIVE SplitAcc(_, _, _)
\* str::split, with the piece being read in cur
SplitAcc(s, sep, cur) ==
    IF s = <<>> THEN <<cur>>
    ELSE IF Head(s) = sep
         THEN <<cur>> \o SplitAcc(Tail(s), sep, <<>>)
         ELSE SplitAcc(Tail(s), sep, Append(cur, Head(s)))

\* str::split: the pieces between the separators, empty pieces included
Split(s, sep) == SplitAcc(s, sep, <<>>)

RECURSIVE TrimStart(_)
\* str::trim_start
TrimStart(s) ==
    IF s # <<>> /\ Head(s) \in {" ", "\t", "\n", "\r"} THEN TrimStart(Tail(s)) ELSE s

RECURSIVE TrimStartMatches(_, _)
\* str::trim_start_matches with one character
TrimStartMatches(s, ch) ==
    IF s # <<>> /\ Head(s) = ch THEN TrimStartMatches(Tail(s), ch) ELSE s

\* The value of a decimal digit, -1 for any other character
DigitOf(ch) ==
    CASE ch = "0" -> 0 [] ch = "1" -> 1 [] ch = "2" -> 2 [] ch = "3" -> 3
      [] ch = "4" -> 4 [] ch = "5" -> 5 [] ch = "6" -> 6 [] ch = "7" -> 7
      [] ch = "8" -> 8 [] ch = "9" -> 9 [] OTHER -> -1

\* The longest digit string read as a number here; every such number is below
\* u32::MAX, and no frame in Frames has a longer one
MaxDigits == 9

RECURSIVE ParseAcc(_, _)
\* The digits of s read after acc, -1 if one is no digit
ParseAcc(s, acc) ==
    IF s = <<>> THEN acc
    ELSE IF DigitOf(Head(s)) < 0 THEN -1
         ELSE ParseAcc(Tail(s), acc * 10 + DigitOf(Head(s)))

\* str::parse::<u32>: the number, or -1 for Err
ParseU32(s) ==
    LET digits == IF s # <<>> /\ Head(s) = "+" THEN Tail(s) ELSE s
    IN  IF digits = <<>> \/ Len(digits) > MaxDigits THEN -1 ELSE ParseAcc(digits, 0)

\* tag_index filled from its last slot backwards: tag_index[2 - (len - i)] = x
TagIndex_RightAligned(tag) ==
    LET len == Min(Len(tag), 3)
        at(i) == IF i >= 1 /\ i < len /\ ParseU32(tag[i + 1]) >= 0 THEN ParseU32(tag[i + 1]) ELSE 0
    IN  <<IF len = 3 THEN at(1) ELSE 0, at(len - 1)>>

\* handle_message, lines 556-562: tag_index of an event split into tag
TagIndex(tag) ==
    LET len == Min(Len(tag), 3)
        at(i) == IF i >= 1 /\ i < len /\ ParseU32(tag[i + 1]) >= 0 THEN ParseU32(tag[i + 1]) ELSE 0
    IN  \* tag_index[len - i - 1] = x for i in 1..len
        <<at(len - 1), IF len = 3 THEN at(1) ELSE 0>>

\* Vec::remove
RemoveAt(h, i) == SubSeq(h, 1, i - 1) \o SubSeq(h, i + 1, Len(h))

\* A handler list in which an expired handler stays.
AfterCall_NoRemove(h, i) ==
    IF h[i].count > 0 THEN [h EXCEPT ![i].count = @ - 1] ELSE h

\* handle_message, lines 579-584 and 611-616: the list after handler i was called
AfterCall(h, i) ==
    IF h[i].count > 0
    THEN IF h[i].count - 1 = 0
         THEN RemoveAt(h, i)
         ELSE [h EXCEPT ![i].count = @ - 1]
    ELSE h

RECURSIVE RevLoop_SkipAfterRemove(_, _, _)
\* A loop whose index moves on by two after a handler was removed.
RevLoop_SkipAfterRemove(h, i, called) ==
    IF i <= 0 THEN [h |-> h, called |-> called]
    ELSE RevLoop_SkipAfterRemove(AfterCall(h, i),
                                 IF Len(AfterCall(h, i)) < Len(h) THEN i - 2 ELSE i - 1,
                                 Append(called, h[i].id))

RECURSIVE RevLoop(_, _, _)
\* handle_message, lines 571-585 and 608-617: for i in (0..handler.len()).rev(),
\* giving the list left and the handlers called, in call order
RevLoop(h, i, called) ==
    IF i = 0 THEN [h |-> h, called |-> called]
    ELSE RevLoop(AfterCall(h, i), i - 1, Append(called, h[i].id))

\* What the dispatch of a frame reads and writes: the two registries, the
\* callbacks invoked so far, and per registration the serial numbers of the
\* events that matched it and of those it was invoked for.
Disp ==
    [tagname |-> tagname_handlers, tag |-> tag_handlers, calls |-> <<>>,
     matched |-> matched, fired |-> fired, nev |-> nevents]

\* One call of a handler, as the callbacks log keeps it
Call(li, ei, path, id, tag, value) ==
    [line |-> li, ev |-> ei, path |-> path, id |-> id, tag |-> tag,
     idx |-> IF path = "tag" THEN <<0, 0>> ELSE TagIndex(tag), value |-> value]

\* handle_message, lines 539-550: the internal handler of tag[0]
RunInternal(d, li, ei, tag, value) ==
    IF tag[1] \in internal_handlers
    THEN [d EXCEPT !.calls = Append(@, Call(li, ei, "internal", 0, tag, value))]
    ELSE d

\* A registry that keeps the key of a list left empty.
Pruned_KeepEmpty(m, key, h) == MapPut(m, key, h)

\* The registry map after the handlers of key were run and left the list h
Pruned(m, key, h) == IF h = <<>> THEN MapRemove(m, key) ELSE MapPut(m, key, h)

\* The calls a run of the handlers of one key adds to the log
CallsOf(called, li, ei, path, tag, value) ==
    [n \in 1..Len(called) |-> Call(li, ei, path, called[n], tag, value)]

\* handle_message, lines 552-591: the tagname handlers of tag[0]
RunTagname(d, li, ei, tag, value) ==
    IF tag[1] \in DOMAIN d.tagname
    THEN LET h == d.tagname[tag[1]]
             r == RevLoop(h, Len(h), <<>>)
         IN  [d EXCEPT !.tagname = Pruned(@, tag[1], r.h),
                       !.calls = @ \o CallsOf(r.called, li, ei, "tagname", tag, value),
                       !.fired = [id \in DOMAIN @ |->
                                    IF \E n \in 1..Len(r.called) : r.called[n] = id
                                    THEN Append(@[id], d.nev) ELSE @[id]]]
    ELSE d

\* Tag handlers looked up under the tag name, like the tagname handlers.
RunTag_ByName(d, li, ei, event, tag, value) ==
    IF tag[1] \in DOMAIN d.tag
    THEN LET h == d.tag[tag[1]]
             r == RevLoop(h, Len(h), <<>>)
         IN  [d EXCEPT !.tag = Pruned(@, tag[1], r.h),
                       !.calls = @ \o CallsOf(r.called, li, ei, "tag", tag, value),
                       !.fired = [id \in DOMAIN @ |->
                                    IF \E n \in 1..Len(r.called) : r.called[n] = id
                                    THEN Append(@[id], d.nev) ELSE @[id]]]
    ELSE d

\* handle_message, lines 593-623: the tag handlers of the whole event
RunTag(d, li, ei, event, tag, value) ==
    IF event \in DOMAIN d.tag
    THEN LET h == d.tag[event]
             r == RevLoop(h, Len(h), <<>>)
         IN  [d EXCEPT !.tag = Pruned(@, event, r.h),
                       !.calls = @ \o CallsOf(r.called, li, ei, "tag", tag, value),
                       !.fired = [id \in DOMAIN @ |->
                                    IF \E n \in 1..Len(r.called) : r.called[n] = id
                                    THEN Append(@[id], d.nev) ELSE @[id]]]
    ELSE d

\* The event is one more event, and it matches the registrations made under
\* the key the code looks up for it.
CountEvent(d, event, tag) ==
    [d EXCEPT !.nev = @ + 1,
              !.matched = [id \in DOMAIN @ |->
                             IF \/ registered[id].reg = "tagname" /\ registered[id].key = tag[1]
                                \/ registered[id].reg = "tag" /\ registered[id].key = event
                             THEN Append(@[id], d.nev + 1) ELSE @[id]]]

\* The three paths with the tag handlers run before the tagname handlers.
DispatchEvent_TagFirst(d, li, ei, event, value) ==
    LET tag == Split(event, ".")
        d0 == CountEvent(d, event, tag)
        d1 == RunInternal(d0, li, ei, tag, value)
        d2 == RunTag(d1, li, ei, event, tag, value)
    IN  RunTagname(d2, li, ei, tag, value)

\* handle_message, lines 535-624: the else branch, for the event named by the
\* token before and the value e
DispatchEvent(d, li, ei, event, value) ==
    LET tag == Split(event, ".")
        d0 == CountEvent(d, event, tag)
        d1 == RunInternal(d0, li, ei, tag, value)
        d2 == RunTagname(d1, li, ei, tag, value)
    IN  RunTag(d2, li, ei, event, tag, value)

RECURSIVE DispatchTokens(_, _, _, _)
\* handle_message, lines 530-626: for e in r, from token j on; a token at an
\* odd place names the event, the token after it is its value
DispatchTokens(d, li, r, j) ==
    IF j > Len(r) THEN d
    ELSE IF j % 2 = 1 THEN DispatchTokens(d, li, r, j + 1)
    ELSE DispatchTokens(DispatchEvent(d, li, j \div 2, TrimStart(r[j - 1]), r[j]),
                        li, r, j + 1)

RECURSIVE DispatchLines_StopOnOdd(_, _, _)
\* A loop over the lines that ends with the first line of an odd token count.
DispatchLines_StopOnOdd(d, lines, li) ==
    IF li > Len(lines) THEN d
    ELSE IF Len(Split(lines[li], "|")) % 2 = 1
         THEN DispatchTokens(d, li, Split(lines[li], "|"), 1)
         ELSE DispatchLines_StopOnOdd(DispatchTokens(d, li, Split(lines[li], "|"), 1),
                                      lines, li + 1)

RECURSIVE DispatchLines(_, _, _)
\* handle_message, lines 525-627: for line in lines, from line li on
DispatchLines(d, lines, li) ==
    IF li > Len(lines) THEN d
    ELSE DispatchLines(DispatchTokens(d, li, Split(lines[li], "|"), 1), lines, li + 1)

\* The frames the server sends
Frames ==
    << <<" ", "|", "p", ".", "1", "|", "5", "|", "p", "|", "6", "\n",
        " ", "p", ".", "1", "|", "7", "|", "q">>,
       <<"q", "|", "1", "|", "p", ".", "1", ".", "2", "|", "7", "|", "p", "\n",
        "p", ".", "x", ".", "3", "|", "8", "|", "p", ".", "1", "|", "9", "|",
        ".", "5", "|", "2", "|", "p", ".", "1", ".", "2", ".", "3", "|", "4", "|",
        "p", ".", "1", "|", "3">> >>

\* The keys handlers are registered under
Keys == { <<"p">>, <<"p", ".", "1">> }

\* The counts handlers are registered with
Counts == {0, 1, MaxCount}

\* Botnana::handle_message with the registries locked from line 518 to line
\* 628.  No on_message callback is set.
HandleMessage(frame) ==
    LET d == DispatchLines(Disp, Split(frame, "\n"), 1)
    IN  /\ tagname_handlers' = d.tagname
        /\ tag_handlers' = d.tag
        /\ calls' = d.calls
        /\ matched' = d.matched
        /\ fired' = d.fired
        /\ nevents' = d.nev
        /\ nframes' = nframes + 1
        /\ UNCHANGED <<internal_handlers, registered>>

\* The entry().or_insert(Vec::new()) and push of both setters
Pushed(m, key, handler) ==
    MapPut(m, key, Append(IF key \in DOMAIN m THEN m[key] ELSE <<>>, handler))

\* Botnana::set_tag_callback
SetTagCallback(key, count) ==
    /\ tag_handlers' = Pushed(tag_handlers, key, [id |-> Len(registered) + 1, count |-> count])
    /\ registered' = Append(registered, [reg |-> "tag", key |-> key, count |-> count])
    /\ matched' = Append(matched, <<>>)
    /\ fired' = Append(fired, <<>>)
    /\ UNCHANGED <<tagname_handlers, internal_handlers, nframes, calls, nevents>>

\* Botnana::set_tagname_callback
SetTagnameCallback(key, count) ==
    /\ tagname_handlers' =
           Pushed(tagname_handlers, key, [id |-> Len(registered) + 1, count |-> count])
    /\ registered' = Append(registered, [reg |-> "tagname", key |-> key, count |-> count])
    /\ matched' = Append(matched, <<>>)
    /\ fired' = Append(fired, <<>>)
    /\ UNCHANGED <<tag_handlers, internal_handlers, nframes, calls, nevents>>

\* The engine with its first connection established, the crate's internal
\* handler for the tag name p installed or not, and no script or query.
InitDispatch ==
    /\ InitEstablished
    /\ scripts_pop_count = DefaultPopCount
    /\ query_count = DefaultQueryCount
    /\ init_queries = <<>>
    /\ cyclic_queries = <<>>
    /\ tag_handlers = EmptyMap
    /\ tagname_handlers = EmptyMap
    /\ internal_handlers \in {{}, {<<"p">>}}
    /\ nframes = 0
    /\ nevents = 0
    /\ calls = <<>>
    /\ registered = <<>>
    /\ matched = <<>>
    /\ fired = <<>>
    /\ last_frame = NoFrame

\* The host registers a tag handler
DispSetTag ==
    /\ Len(registered) < MaxRegs
    /\ \E key \in Keys, count \in Counts : SetTagCallback(key, count)
    /\ UNCHANGED <<last_frame, engVars, connVars, enqueued, schedVars, poll_local, brVars, lifeVars, lockVars, takeVars, hostVars>>

\* The host registers a tagname handler
DispSetTagname ==
    /\ Len(registered) < MaxRegs
    /\ \E key \in Keys, count \in Counts : SetTagnameCallback(key, count)
    /\ UNCHANGED <<last_frame, engVars, connVars, enqueued, schedVars, poll_local, brVars, lifeVars, lockVars, takeVars, hostVars>>

\* MESSAGE_PROCESSOR of connection 1, lines 288-290: a frame was received,
\* is trimmed and handled.  The server sends its frames in turn, starting
\* with any of them.
DispHandle ==
    /\ nframes < MaxFrames
    /\ mp[1] = "run"
    /\ \E k \in 1..Len(Frames) :
        /\ last_frame.k \in {0, IF k = 1 THEN Len(Frames) ELSE k - 1}
        /\ HandleMessage(TrimStartMatches(TrimStart(Frames[k]), "|"))
        /\ last_frame' = [k |-> k, nreg |-> Len(registered)]
    /\ UNCHANGED <<engVars, connVars, enqueued, schedVars, poll_local, brVars, lifeVars, lockVars, takeVars, hostVars>>

NextDisp == DispSetTag \/ DispSetTagname \/ DispHandle

SpecDisp == InitDispatch /\ [][NextDisp]_vars

\* ------------------------------------ SpecBridge: the Modbus thread and host
\* The block sizes followed: one word, one full exchange, the 200 words of
\* two exchanges, and three exchanges with a last one of one word.
BlockSizes == {MinBlock, MaxChunk, 200, 2 * MaxChunk + 1}

InitBridgeSpec ==
    /\ InitEngine
    /\ InitConn
    /\ enqueued = <<>>
    /\ ntick = 0 /\ last_tick = NoTick
    /\ cycle = NoCycle /\ last_cycle = NoCycle
    /\ init_removed = <<>>
    /\ poll_local = [c \in Conns |-> NoBatch]
    /\ life_log = [c \in Conns |-> <<>>]
    /\ InitLockVars
    /\ InitDisp
    /\ \E B \in BlockSizes : InitBridge(B)

notTake == <<engVars, connVars, enqueued, schedVars, dispVars, poll_local, lifeVars,
             lockVars, hostVars>>
notBridge == <<notTake, takeVars>>

\* mb_connect: the thread is spawned and takes the writer of the inputs and
\* the reader of the holding slot, lines 803-814
MbConnect ==
    /\ mb_pc = "idle"
    /\ mb_pc' = "connect"
    /\ mbin_input' = Take(mbin_input).left
    /\ mbhd_output' = Take(mbhd_output).left
    /\ mb_thr' = [mb_thr EXCEPT ![1] = "loop"]
    /\ UNCHANGED <<mb_size, mbin, mbhd, is_mb_connected, mb_left, mb_start, mb_cycle,
                   exch, last_exch, in_pub, in_prev, hd_pub, nset, notTake>>

\* tcp::connect answers Err, line 886: wait for connect_interval
MbConnectErr ==
    /\ mb_pc = "connect"
    /\ mb_pc' = "backoff"
    /\ UNCHANGED <<mb_size, mbin, mbhd, is_mb_connected, mb_left, mb_start, mb_cycle,
                   exch, last_exch, in_pub, in_prev, hd_pub, nset, notBridge>>

\* connect_interval.tick() is over, line 887: the outer loop connects again
MbRetry ==
    /\ mb_pc = "backoff"
    /\ mb_pc' = "connect"
    /\ UNCHANGED <<mb_size, mbin, mbhd, is_mb_connected, mb_left, mb_start, mb_cycle,
                   exch, last_exch, in_pub, in_prev, hd_pub, nset, notBridge>>

\* tcp::connect answers Ok, lines 818-827
MbConnectOk ==
    /\ mb_pc = "connect"
    /\ is_mb_connected' = TRUE
    /\ mb_pc' = "tick"
    /\ UNCHANGED <<mb_size, mbin, mbhd, mb_left, mb_start, mb_cycle,
                   exch, last_exch, in_pub, in_prev, hd_pub, nset, notBridge>>

\* interval.tick() is over, lines 829-839: the locals of the cycle, and
\* holding.update()
MbTick ==
    /\ mb_pc = "tick"
    /\ mb_cycle < MaxCycles
    /\ mb_left' = mb_size
    /\ mb_start' = 0
    /\ mbhd' = Update(mbhd)
    /\ mb_cycle' = mb_cycle + 1
    /\ exch' = <<>>
    /\ mb_pc' = WhileLeft(mb_size)
    /\ UNCHANGED <<mb_size, mbin, is_mb_connected, last_exch, in_pub, in_prev,
                   hd_pub, nset, notBridge>>

\* One pass of the while loop, lines 840-876: the exchange of the next chunk,
\* answered Ok with the server's words or Err
MbChunk(ok) ==
    /\ mb_pc = "chunk"
    /\ mb_left > 0
    /\ LET cnt == ChunkCnt(mb_left)
           data == Slice(OutputBuffer(mbhd), mb_start, cnt)
           inputs == ServerInputs(mb_cycle, cnt)
       IN  /\ mb_left' = mb_left - cnt
           /\ exch' = Append(exch, [rd |-> Addr(InputBase, mb_start), cnt |-> cnt,
                                    wr |-> Addr(HoldingBase, mb_start), data |-> data,
                                    start |-> mb_start, ok |-> ok, inputs |-> inputs])
           /\ mbin' = IF ok
                      THEN [mbin EXCEPT !.buf[mbin.input] =
                                CopyFromSlice(@, mb_start, inputs)]
                      ELSE mbin
           /\ mb_start' = mb_start + cnt
           /\ mb_pc' = WhileLeft(mb_left - cnt)
    /\ UNCHANGED <<mb_size, mbhd, is_mb_connected, mb_cycle, last_exch, in_pub,
                   in_prev, hd_pub, nset, notBridge>>

\* input.publish(), line 879, and back to interval.tick()
MbPublish ==
    /\ mb_pc = "publish"
    /\ mbin' = Publish(mbin)
    /\ in_prev' = in_pub
    /\ in_pub' = InputBuffer(mbin)
    /\ last_exch' = exch
    /\ mb_pc' = "tick"
    /\ UNCHANGED <<mb_size, mbhd, is_mb_connected, mb_left, mb_start, mb_cycle, exch,
                   hd_pub, nset, notBridge>>

\* mb_update of the host: the reader of the inputs takes the waiting snapshot
MbUpdate ==
    /\ mbin.dirty
    /\ mbin' = Update(mbin)
    /\ UNCHANGED <<mb_size, mbhd, is_mb_connected, mb_pc, mb_left, mb_start, mb_cycle,
                   exch, last_exch, in_pub, in_prev, hd_pub, nset, notBridge>>

\* mb_set_u16 of the host: one word of the buffer the writer of the holding
\* slot is filling
MbSet(addr, value) ==
    /\ nset < MaxHostOps
    /\ nset' = nset + 1
    /\ mbhd' = [mbhd EXCEPT !.buf[mbhd.input][addr] = value]
    /\ UNCHANGED <<mb_size, mbin, is_mb_connected, mb_pc, mb_left, mb_start, mb_cycle,
                   exch, last_exch, in_pub, in_prev, hd_pub, notBridge>>

\* mb_publish of the host
MbPublishHolding ==
    /\ nset < MaxHostOps
    /\ nset' = nset + 1
    /\ mbhd' = Publish(mbhd)
    /\ hd_pub' = InputBuffer(mbhd)
    /\ UNCHANGED <<mb_size, mbin, is_mb_connected, mb_pc, mb_left, mb_start, mb_cycle,
                   exch, last_exch, in_pub, in_prev, notBridge>>

NextBridge ==
    \/ MbConnect \/ MbConnectErr \/ MbRetry \/ MbConnectOk
    \/ MbTick
    \/ \E ok \in BOOLEAN : MbChunk(ok)
    \/ MbPublish
    \/ MbUpdate
    \/ MbSet(mb_size - 1, nset + 1)
    \/ MbPublishHolding

SpecBridge == InitBridgeSpec /\ [][NextBridge]_vars

\* ------------- SpecReconnect: one thread calls connect() again and again
\* The host calls connect() from one thread only, so no two calls overlap; a
\* connection ends, its cleanup runs, and the next connect() follows, while
\* the workers of the connection before may not have ended yet.  The host
\* also calls send_script_to_buffer, whose test and push are two steps.  The relay
\* writes nothing here: what matters is which worker puts a command into
\* which connection's channel.
\* send_script_to_buffer, line 404: has_ws_sender() locks ws_out, finds a
\* handle and lets the lock go.  A call that finds none returns.
SsCheck ==
    /\ ss_pc = "idle"
    /\ Len(enqueued) < MaxLifeScripts
    /\ HasWsSender
    /\ ss_pc' = "push"
    /\ UNCHANGED <<engVars, connVars, enqueued, auxRest, lifeVars, lockVars, takeVars,
                   flush_local>>

\* send_script_to_buffer, lines 405-408: lock scripts_buffer and push_back
SsPush ==
    /\ ss_pc = "push"
    /\ ss_pc' = "idle"
    /\ enqueued' = Append(enqueued, <<ScriptNames[Len(enqueued) + 1], "\n">>)
    /\ scripts_buffer' = Append(scripts_buffer, <<ScriptNames[Len(enqueued) + 1], "\n">>)
    /\ UNCHANGED <<is_connecting, is_connected, ws_out, user_sender,
                   scripts_pop_count, init_queries, cyclic_queries, last_query,
                   query_count, connVars, auxRest, lifeVars, lockVars, takeVars,
                   flush_local>>

NextReconnect ==
    \/ ConnectCheck("A") \/ ConnectStart("A")
    \/ SsCheck \/ SsPush
    \/ \E c \in Conns :
        \/ WsOpen(c) \/ WsMessage(c) \/ WsClose(c)
        \/ WsExitUserSender(c) \/ WsExitWsOut(c) \/ WsExitScripts(c)
        \/ WsExitConnecting(c) \/ WsExitConnected(c)
        \/ TryRecv(c) \/ TryStore(c) \/ TrySetConnected(c) \/ TryOpenCb(c)
        \/ RelayClosed(c)
        \/ MpRecv(c) \/ MpExit(c)
        \/ PollStop(c) \/ PollTick(c)

SpecReconnect == Init /\ [][NextReconnect]_vars

\* ------- SpecFlush: flush_scripts_buffer next to the POLL thread's ticks
InitFlush ==
    /\ InitEstablished
    /\ scripts_pop_count \in (1..MaxPopCount) \cup {DefaultPopCount}
    /\ query_count = DefaultQueryCount
    /\ init_queries = <<>>
    /\ cyclic_queries = <<>>
    /\ InitDisp

\* flush_scripts_buffer, lines 448-459: the block holding the queue's lock
\* pops every fragment into msg; the lock is released at line 459
FlushPop ==
    /\ ss_pc = "idle"
    /\ ~flush_local.popped
    /\ flush_local' = [popped |-> TRUE, msg |-> Concat(scripts_buffer)]
    /\ scripts_buffer' = <<>>
    /\ UNCHANGED <<is_connecting, is_connected, ws_out, user_sender,
                   scripts_pop_count, init_queries, cyclic_queries, last_query,
                   query_count, connVars, enqueued, auxRest, lifeVars, lockVars,
                   takeVars, ss_pc>>

\* flush_scripts_buffer, lines 460-462: evaluate, unless msg is empty
FlushEval ==
    /\ flush_local.popped
    /\ flush_local' = NoBatch
    /\ SetEng(IF Len(flush_local.msg) > 0 THEN Evaluate(Eng, flush_local.msg) ELSE Eng)
    /\ UNCHANGED <<cfgVars, cpc, nconn, ws, wdVars, tpc, relay, mp, poll, thread_ch,
                   in_ch, poll_ch, open_log, nmsgs, enqueued, wire, auxRest, lifeVars,
                   lockVars, takeVars, ss_pc>>

\* One host thread calls send_script_to_buffer and flush_scripts_buffer, one
\* call after the other; the POLL thread's tick runs in its two halves; the
\* relay writes what the channel holds.
NextFlush ==
    \/ ~flush_local.popped /\ SsCheck
    \/ SsPush
    \/ FlushPop \/ FlushEval
    \/ PollPop(1) \/ PollEval(1)
    \/ RelaySend(1)

SpecFlush == InitFlush /\ [][NextFlush]_vars

\* ----------------------- SpecTake: mb_connect called more than once
\* mb_connect, lines 789-801: call t spawns its Modbus thread and returns
MbCall(t) ==
    /\ mb_thr[t] = "idle"
    /\ \A u \in 1..(t - 1) : mb_thr[u] # "idle"
    /\ mb_thr' = [mb_thr EXCEPT ![t] = "take_input"]
    /\ UNCHANGED <<brVars, mbin_input, mbhd_output, notTake>>

\* lines 802-807 in the thread of call t: mbin_input.lock().take(), and
\* expect, which panics on None; the panic ends the thread
MbTakeInput(t) ==
    /\ mb_thr[t] = "take_input"
    /\ mbin_input' = Take(mbin_input).left
    /\ mb_thr' = [mb_thr EXCEPT ![t] =
                    IF Take(mbin_input).got THEN "take_holding" ELSE "panicked"]
    /\ UNCHANGED <<brVars, mbhd_output, notTake>>

\* lines 808-815: the same for mbhd_output; the thread that got both handles
\* goes on to the loop of line 816
MbTakeHolding(t) ==
    /\ mb_thr[t] = "take_holding"
    /\ mbhd_output' = Take(mbhd_output).left
    /\ mb_thr' = [mb_thr EXCEPT ![t] =
                    IF Take(mbhd_output).got THEN "loop" ELSE "panicked"]
    /\ mb_pc' = IF Take(mbhd_output).got /\ mb_pc = "idle" THEN "connect" ELSE mb_pc
    /\ UNCHANGED <<mb_size, mbin, mbhd, is_mb_connected, mb_left, mb_start, mb_cycle,
                   exch, last_exch, in_pub, in_prev, hd_pub, nset, mbin_input, notTake>>

NextTake ==
    \/ \E t \in 1..MaxMbCalls : MbCall(t) \/ MbTakeInput(t) \/ MbTakeHolding(t)
    \/ MbConnectErr \/ MbRetry \/ MbConnectOk
    \/ MbTick
    \/ \E ok \in BOOLEAN : MbChunk(ok)
    \/ MbPublish
    \/ MbUpdate

SpecTake == InitBridgeSpec /\ [][NextTake]_vars

\* --------------- SpecLocks: handle_message with its locks, and the teardown
\* The MESSAGE_PROCESSOR thread of connection 1 inside handle_message, lock
\* by lock; the callbacks it invokes may call a registering function of the
\* engine; the host registers callbacks from its own thread; the connection
\* may end at any point.  Threads are "MP" and "HOST".

\* the connection variables these steps leave alone
connOther == <<cpc, nconn, is_watchdog_refreshed, wd_armed, wd_arrived, tpc, relay,
               thread_ch, user_ch, err_log, open_log, nmsgs, entered, wire>>
notLocks == <<engVars, enqueued, auxRest, lifeVars, takeVars, hostVars>>

InitLocks ==
    /\ InitEstablished
    /\ scripts_pop_count = DefaultPopCount
    /\ query_count = DefaultQueryCount
    /\ init_queries = <<>>
    /\ cyclic_queries = <<>>
    /\ InitDisp

\* handle_message, lines 517-630: after the callbacks of position pc, with the
\* callbacks in set registered, the one event of the frame goes on to the
\* next registry that has a handler for it
AfterCb(pc, set) ==
    CASE pc = "msg_cb" -> "unlock_msg"
      [] pc = "lock_tag" ->
            IF "tagname_handlers" \in set THEN "tagname_cb"
            ELSE IF "tag_handlers" \in set THEN "tag_cb" ELSE "unlock"
      [] pc = "tagname_cb" -> IF "tag_handlers" \in set THEN "tag_cb" ELSE "unlock"
      [] pc = "tag_cb" -> "unlock"

\* lines 288-290: user_receiver.recv() is Ok, handle_message begins
LkRecv ==
    /\ mp[1] = "run" /\ hm_pc = "recv"
    /\ in_ch[1] > 0
    /\ in_ch' = [in_ch EXCEPT ![1] = @ - 1]
    /\ hm_pc' = "lock_msg"
    /\ UNCHANGED <<mtx, host_pc, cbs, nregs, ws, mp, poll, poll_ch, connOther, notLocks>>

\* line 505: on_message_cb.lock(); the guard lives to the end of the if let
LkLockMsg ==
    /\ hm_pc = "lock_msg"
    /\ mtx["on_message_cb"] = "free"
    /\ mtx' = [mtx EXCEPT !["on_message_cb"] = "MP"]
    /\ hm_pc' = IF "on_message_cb" \in cbs THEN "msg_cb" ELSE "unlock_msg"
    /\ UNCHANGED <<host_pc, cbs, nregs, connVars, notLocks>>

\* lines 513, 567, 603: the callback runs and returns
LkCallback ==
    /\ hm_pc \in {"msg_cb", "tagname_cb", "tag_cb"}
    /\ hm_pc' = AfterCb(hm_pc, cbs)
    /\ UNCHANGED <<mtx, host_pc, cbs, nregs, connVars, notLocks>>

\* the callback calls the registering function of x (lines 641-656, 666-683,
\* 742-752) while no thread holds x: lock, push, unlock, return
LkCallbackRegister(x) ==
    /\ hm_pc \in {"msg_cb", "tagname_cb", "tag_cb"}
    /\ nregs < MaxRegs
    /\ mtx[x] = "free"
    /\ cbs' = cbs \cup {x}
    /\ nregs' = nregs + 1
    /\ hm_pc' = AfterCb(hm_pc, cbs')
    /\ UNCHANGED <<mtx, host_pc, connVars, notLocks>>

\* the callback calls the registering function of x while its own thread
\* holds x: Mutex::lock never returns, here by blocking for ever
LkRelockBlock(x) ==
    /\ hm_pc \in {"msg_cb", "tagname_cb", "tag_cb"}
    /\ nregs < MaxRegs
    /\ mtx[x] = "MP"
    /\ hm_pc' = "blocked"
    /\ UNCHANGED <<mtx, host_pc, cbs, nregs, connVars, notLocks>>

\* the same, Mutex::lock panicking: the thread unwinds, its guards poison
\* the Mutexes it held, user_receiver and poll_sender are dropped
LkRelockPanic(x) ==
    /\ hm_pc \in {"msg_cb", "tagname_cb", "tag_cb"}
    /\ nregs < MaxRegs
    /\ mtx[x] = "MP"
    /\ hm_pc' = "panicked"
    /\ mtx' = [y \in Mutexes |-> IF mtx[y] = "MP" THEN "poisoned" ELSE mtx[y]]
    /\ mp' = [mp EXCEPT ![1] = "panicked"]
    /\ poll_ch' = [poll_ch EXCEPT ![1] = TRUE]
    /\ UNCHANGED <<host_pc, cbs, nregs, ws, poll, in_ch, connOther, notLocks>>

\* line 514: the if let of line 505 ends and drops the guard
LkUnlockMsg ==
    /\ hm_pc = "unlock_msg"
    /\ mtx' = [mtx EXCEPT !["on_message_cb"] = "free"]
    /\ hm_pc' = "lock_tagname"
    /\ UNCHANGED <<host_pc, cbs, nregs, connVars, notLocks>>

\* line 517: tagname_handlers.lock()
LkLockTagname ==
    /\ hm_pc = "lock_tagname"
    /\ mtx["tagname_handlers"] = "free"
    /\ mtx' = [mtx EXCEPT !["tagname_handlers"] = "MP"]
    /\ hm_pc' = "lock_tag"
    /\ UNCHANGED <<host_pc, cbs, nregs, connVars, notLocks>>

\* line 518: tag_handlers.lock(), then the loops down to the first callback
LkLockTag ==
    /\ hm_pc = "lock_tag"
    /\ mtx["tag_handlers"] = "free"
    /\ mtx' = [mtx EXCEPT !["tag_handlers"] = "MP"]
    /\ hm_pc' = AfterCb("lock_tag", cbs)
    /\ UNCHANGED <<host_pc, cbs, nregs, connVars, notLocks>>

\* line 627: the block of line 516 ends and drops both guards; handle_message
\* returns to the recv of line 288
LkUnlock ==
    /\ hm_pc = "unlock"
    /\ mtx' = [mtx EXCEPT !["tagname_handlers"] = "free", !["tag_handlers"] = "free"]
    /\ hm_pc' = "recv"
    /\ UNCHANGED <<host_pc, cbs, nregs, connVars, notLocks>>

\* lines 291-299: recv is Err while the thread waits in it
LkExit == hm_pc = "recv" /\ MpExit(1)

\* Client::on_message while user_receiver exists
LkMessage == mp[1] # "panicked" /\ WsMessage(1)

\* Client::on_message, line 992, after user_receiver was dropped: send is Err
\* and expect panics; the WS_CLIENT thread unwinds out of ws::connect and ends
\* without the statements of lines 250-257
LkMessagePanic ==
    /\ ws[1] = "open"
    /\ mp[1] = "panicked"
    /\ ws' = [ws EXCEPT ![1] = "panicked"]
    /\ is_watchdog_refreshed' = [is_watchdog_refreshed EXCEPT ![1] = FALSE]
    /\ wd_armed' = [wd_armed EXCEPT ![1] = FALSE]
    /\ wd_arrived' = [wd_arrived EXCEPT ![1] = FALSE]
    /\ UNCHANGED <<engVars, cpc, nconn, tpc, relay, mp, poll, thread_ch, user_ch,
                   in_ch, poll_ch, err_log, open_log, nmsgs, entered, wire, enqueued,
                   aux>>

\* the host calls the registering function of x: the lock() of lines 647,
\* 672, 747 returns
HostLock(x) ==
    /\ host_pc = "idle"
    /\ nregs < MaxRegs
    /\ mtx[x] = "free"
    /\ mtx' = [mtx EXCEPT ![x] = "HOST"]
    /\ host_pc' = x
    /\ nregs' = nregs + 1
    /\ UNCHANGED <<hm_pc, cbs, connVars, notLocks>>

\* the same on a poisoned Mutex: lock() is Err and unwrap panics
HostLockPoisoned(x) ==
    /\ host_pc = "idle"
    /\ nregs < MaxRegs
    /\ mtx[x] = "poisoned"
    /\ host_pc' = "panicked"
    /\ nregs' = nregs + 1
    /\ UNCHANGED <<mtx, hm_pc, cbs, connVars, notLocks>>

\* the registering function stores the callback and returns
HostUnlock ==
    /\ host_pc \in Mutexes
    /\ cbs' = cbs \cup {host_pc}
    /\ mtx' = [mtx EXCEPT ![host_pc] = "free"]
    /\ host_pc' = "idle"
    /\ UNCHANGED <<hm_pc, nregs, connVars, notLocks>>

\* the steps of each thread
MpSteps ==
    \/ LkRecv \/ LkLockMsg \/ LkCallback \/ LkUnlockMsg
    \/ LkLockTagname \/ LkLockTag \/ LkUnlock \/ LkExit
    \/ \E x \in Mutexes : LkCallbackRegister(x) \/ LkRelockBlock(x) \/ LkRelockPanic(x)
WsSteps ==
    \/ WsExitUserSender(1) \/ WsExitWsOut(1) \/ WsExitScripts(1)
    \/ WsExitConnecting(1) \/ WsExitConnected(1)
RelaySteps == RelaySend(1) \/ RelayFail(1) \/ RelayClosed(1)
PollSteps == PollStop(1) \/ PollTick(1)

NextLocks ==
    \/ MpSteps \/ WsSteps \/ RelaySteps \/ PollSteps
    \/ LkMessage \/ LkMessagePanic \/ WsClose(1)
    \/ SendMessage
    \/ HostUnlock
    \/ \E x \in Mutexes : HostLock(x) \/ HostLockPoisoned(x)

\* Every thread that can take a step eventually takes one; the host need not
\* call anything, but returns from a call it is in; the connection need not end.
SpecLocks ==
    /\ InitLocks /\ [][NextLocks]_vars
    /\ WF_vars(MpSteps) /\ WF_vars(WsSteps) /\ WF_vars(RelaySteps)
    /\ WF_vars(PollSteps) /\ WF_vars(HostUnlock)

\* ------------------------------------------------------------------ claims

\* C1: whatever the interleaving of connect() calls and connection events, at
\* most one handshake attempt / WS client worker exists at a time.
C1_SingleHandshake == Cardinality({c \in Conns : Live(c)}) <= 1

\* The WS_CLIENT thread of c has finished its cleanup and the Try Connection
\* thread of c has ended, and no connect() call is under way.
Settled(c) ==
    /\ ws[c] = "done"
    /\ tpc[c] = "done"
    /\ \A t \in Callers : cpc[t] = "idle"

\* C2: once the connection has ended (and until the next connect()), the send
\* handle is absent, the script queue is empty and both flags are false.
C2_ClearedAfterTerminal ==
    \A c \in Conns :
        (nconn = c /\ Settled(c)) =>
            /\ ws_out = None
            /\ scripts_buffer = <<>>
            /\ ~is_connecting
            /\ ~is_connected

\* Every thread of connection c has ended.
AllEnded(c) ==
    /\ ws[c] = "done"
    /\ tpc[c] = "done"
    /\ relay[c] # "run" /\ mp[c] # "run" /\ poll[c] # "run"

\* C3: a connection that has failed has had the connection-error callback
\* invoked exactly once.
C3_ExactlyOneError == \A c \in Conns : AllEnded(c) => Len(err_log[c]) = 1

\* C4: at a watchdog expiry, if a message arrived since the previous expiry
\* the flag is cleared and the timer re-armed with no callback; if none
\* arrived, the error callback gets the timeout diagnostic, the event loop is
\* shut down and the timer is not re-armed.
C4_Watchdog ==
    [][\A c \in Conns :
        WsTimeout(c) =>
            IF wd_arrived[c]
            THEN /\ ~is_watchdog_refreshed'[c]
                 /\ wd_armed'[c]
                 /\ err_log' = err_log
                 /\ ws'[c] = "open"
            ELSE /\ err_log'[c] = Append(err_log[c], "timeout")
                 /\ ~wd_armed'[c]
                 /\ ~Live(c)']_vars

\* A message arrived, an expiry re-armed silently, a later expiry with no
\* message in between fired; the message still waits for the dispatcher.
C4_Witness == \E c \in Conns : err_log[c] = <<"timeout">> /\ in_ch[c] > 0

\* C5: a connection's event loop starts only in a step of a connect() call.
C5_NoAutoReconnect ==
    [][\A c \in Conns :
        (~Live(c) /\ Live(c)') =>
            \E t \in Callers : cpc[t] = "start" /\ cpc'[t] = "idle"]_vars

\* Connection 1 has failed and ended, nobody called connect() again, and no
\* second connection exists.
C5_Witness ==
    /\ AllEnded(1)
    /\ nconn = 1
    /\ ~is_connecting
    /\ \A c \in Conns : ~Live(c)
    /\ \A t \in Callers : cpc[t] = "idle"

\* Registration id is still in the registry it was made in
InRegistry(id) ==
    LET m == IF registered[id].reg = "tag" THEN tag_handlers ELSE tagname_handlers
        k == registered[id].key
    IN  k \in DOMAIN m /\ \E n \in 1..Len(m[k]) : m[k][n].id = id

\* C6: in both registries a handler registered with count N > 0 is invoked
\* for exactly the first N events that match it after its registration and
\* is in the registry until the N-th; one registered with count 0 is invoked
\* for every matching event and stays in the registry.
C6_CountExpiry ==
    \A id \in 1..Len(registered) :
        LET N == registered[id].count
            M == matched[id]
        IN  IF N = 0
            THEN fired[id] = M /\ InRegistry(id)
            ELSE /\ fired[id] = SubSeq(M, 1, Min(N, Len(M)))
                 /\ InRegistry(id) <=> Len(M) < N

\* A tag handler with the largest count met more matching events than that,
\* was invoked for the first of them up to its count and is gone; a tagname
\* handler with count 0 was invoked three times or more and stays.
C6_Witness ==
    \E a, b \in 1..Len(registered) :
        /\ registered[a].reg = "tag" /\ registered[a].count = MaxCount
        /\ Len(matched[a]) > MaxCount /\ Len(fired[a]) = MaxCount /\ ~InRegistry(a)
        /\ registered[b].reg = "tagname" /\ registered[b].count = 0
        /\ Len(fired[b]) >= 3 /\ InRegistry(b)

\* The place of a path among the three of an event
PathRank(path) == CASE path = "internal" -> 1 [] path = "tagname" -> 2 [] path = "tag" -> 3

\* Call a is not after call b: by line, then by event of the line, then by path
NotAfter(a, b) ==
    \/ a.line < b.line
    \/ a.line = b.line /\ a.ev < b.ev
    \/ a.line = b.line /\ a.ev = b.ev /\ PathRank(a.path) <= PathRank(b.path)

\* C7: the callbacks a frame invokes come line by line in frame order, within
\* a line event by event from left to right, and within an event the internal
\* handler first, then the tagname handlers, then the tag handlers, whatever
\* the order the handlers were registered in.
C7_DispatchOrder ==
    \A i, j \in 1..Len(calls) : i < j => NotAfter(calls[i], calls[j])

\* A two-line frame whose first event ran all three paths, with the tag
\* handler registered before the tagname handler.
C7_Witness ==
    /\ \E n \in 1..Len(calls) : calls[n].line = 2
    /\ \E i, j, k \in 1..Len(calls) :
        /\ i < j /\ j < k
        /\ calls[i].line = 1 /\ calls[j].line = 1 /\ calls[k].line = 1
        /\ calls[i].ev = 1 /\ calls[j].ev = 1 /\ calls[k].ev = 1
        /\ calls[i].path = "internal" /\ calls[j].path = "tagname" /\ calls[k].path = "tag"
        /\ calls[k].id < calls[j].id

\* m is a script.evaluate command
IsEval(m) == Len(m) >= 4 /\ m[1] = EvalPrefix /\ m[Len(m)] = EvalSuffix

\* The script a script.evaluate command carries, as the server's JSON parser
\* reads it: the text between the quotes, \n read back as a newline
ScriptOf(m) ==
    LET body == SubSeq(m, 3, Len(m) - 2)
    IN  [i \in 1..Len(body) |-> IF body[i] = "\\n" THEN "\n" ELSE body[i]]

\* ms is exactly the given scripts, each in one script.evaluate command
Carries(ms, scripts) ==
    /\ Len(ms) = Len(scripts)
    /\ \A i \in 1..Len(ms) : IsEval(ms[i]) /\ ScriptOf(ms[i]) = scripts[i]

\* The status-query batch a tick is due to send, from what it found: the
\* front of the init list, or else the cyclic list from the cursor on.
DueQueries(t) ==
    IF t.pre_init # <<>>
    THEN SubSeq(t.pre_init, 1, Min(query_count, Len(t.pre_init)))
    ELSE SubSeq(cyclic_queries, t.pre_cursor + 1,
                Min(t.pre_cursor + query_count, Len(cyclic_queries)))

ScriptTokens == {ScriptNames[i] : i \in 1..Len(ScriptNames)} \cup {"\n"}

\* m carries fragments of the script queue (and not status queries)
IsScriptEval(m) ==
    IsEval(m) /\ \A i \in 1..Len(ScriptOf(m)) : ScriptOf(m)[i] \in ScriptTokens

RECURSIVE ScriptsSent(_)
\* The script texts the commands in a channel carry, in channel order
ScriptsSent(ch) ==
    IF ch = <<>> THEN <<>>
    ELSE (IF IsScriptEval(Head(ch)) THEN <<ScriptOf(Head(ch))>> ELSE <<>>)
         \o ScriptsSent(Tail(ch))

RECURSIVE NamesIn(_)
\* The script names in a text, in the order they stand in it
NamesIn(text) ==
    IF text = <<>> THEN <<>>
    ELSE (IF Head(text) = "\n" THEN <<>> ELSE <<Head(text)>>) \o NamesIn(Tail(text))

\* The place of a script name in the order the host enqueued the scripts
EnqueuePlace(name) == CHOOSE i \in 1..Len(ScriptNames) : ScriptNames[i] = name

\* C9: across ticks the script fragments leave in the order they were
\* enqueued, none duplicated: in every outbound channel each fragment stands
\* after all the fragments enqueued before it.
C9_EnqueueOrder ==
    \A c \in Conns :
        LET out == NamesIn(Concat(ScriptsSent(user_ch[c])))
        IN  \A i, j \in 1..Len(out) : i < j => EnqueuePlace(out[i]) < EnqueuePlace(out[j])

Ceil(a, b) == (a + b - 1) \div b

C11_HeartbeatIffNothingSent ==
    ntick > 0 => (last_tick.no_command <=> last_tick.sent = <<>>)

\* C11: a tick sends the motion.poll frame if and only if it found the script
\* queue empty and no status query due; a tick that put a command into the
\* outbound channel never sends it, and while user_sender and ws_out hold the
\* connection whose relay runs, a tick that sends no command does.
C11_HeartbeatIffIdle ==
    ntick > 0 =>
        /\ last_tick.no_command <=>
               (last_tick.pre_buffer = <<>> /\ DueQueries(last_tick) = <<>>)
        /\ last_tick.sent # <<>> => ~last_tick.no_command
        /\ (ws_out = 1 /\ user_sender = 1 /\ relay[1] = "run" /\ last_tick.sent = <<>>)
               => last_tick.no_command

\* a tick that sent the motion.poll frame after earlier ticks had emptied the
\* script queue and the init list
C11_Witness ==
    /\ ntick > 1
    /\ last_tick.no_command
    /\ last_tick.sent = <<>>
    /\ enqueued # <<>>
    /\ cyclic_queries = <<>>
    /\ user_ch[1] # <<>>

\* C12: when a cycle of the Modbus thread reaches its publish, the exchanges
\* it made are ceil(B/121) chunks, each of 121 words but the last, starting
\* at offsets 0, 121, 242, ... so that they cover words 0..B-1 once each
\* (121 + 79 for B = 200); the chunk at offset s read at address 30001 + s
\* and wrote words s..s+len-1 of the holding view to address 40001 + s.
C12_Chunking ==
    mb_pc = "publish" =>
        LET n == Len(exch)
        IN  /\ n = Ceil(mb_size, 121)
            /\ \A k \in 1..n :
                 /\ exch[k].start = 121 * (k - 1)
                 /\ exch[k].cnt = IF k < n THEN 121 ELSE mb_size - 121 * (n - 1)
                 /\ exch[k].cnt \in 1..121
                 /\ exch[k].rd = 30001 + exch[k].start
                 /\ exch[k].wr = 40001 + exch[k].start
                 /\ exch[k].data =
                        [i \in 1..exch[k].cnt |->
                            OutputBuffer(mbhd)[exch[k].start + i - 1]]
            /\ mb_size = 200 => [k \in 1..n |-> exch[k].cnt] = <<121, 79>>

\* a cycle over 200 words that wrote a word the host had set and published
C12_Witness ==
    /\ mb_pc = "publish"
    /\ mb_size = 200
    /\ Len(exch) = 2
    /\ exch[2].data[79] > 0

\* C13: in the snapshot a cycle published, every chunk was attempted whatever
\* the outcome of the others, the slice of a chunk whose exchange succeeded
\* holds the words read in that exchange, and the slice of a chunk whose
\* exchange failed holds what it held in the snapshot published before.
C13_FailureIsolation ==
    (mb_pc = "tick" /\ last_exch # <<>>) =>
        /\ last_exch[Len(last_exch)].start + last_exch[Len(last_exch)].cnt = mb_size
        /\ \A k \in 1..Len(last_exch) :
             \A i \in 1..last_exch[k].cnt :
                in_pub[last_exch[k].start + i - 1] =
                    IF last_exch[k].ok
                    THEN last_exch[k].inputs[i]
                    ELSE in_prev[last_exch[k].start + i - 1]

\* The reader of slot tb, whose last published snapshot is pub: once it has
\* refreshed after the last publish its buffer is that snapshot; until then
\* the snapshot waiting for it is that one and no other; its buffer is never
\* the one the writer fills.
SlotExchange(tb, pub) ==
    /\ ~tb.dirty => OutputBuffer(tb) = pub
    /\ tb.dirty => tb.buf[tb.back] = pub
    /\ {tb.input, tb.back, tb.output} = {1, 2, 3}

\* C14: in both register slots a reader that refreshes its view holds the
\* snapshot published last, never an older one and never the buffer being
\* written; a snapshot published before the reader took the previous one
\* replaces it; and the Modbus thread's publish is enabled whenever it is
\* reached, whatever the reader has done.
C14_SnapshotExchange ==
    /\ SlotExchange(mbin, in_pub)
    /\ SlotExchange(mbhd, hd_pub)
    /\ mb_pc = "publish" => ENABLED MbPublish

\* the host refreshed after two publishes of the Modbus thread with no
\* refresh between them: it holds the second snapshot, and the first went
\* back to the writer unread
C14_Witness ==
    /\ mb_cycle = 2
    /\ mb_pc = "tick"
    /\ ~mbin.dirty
    /\ OutputBuffer(mbin) = in_pub
    /\ in_pub # in_prev
    /\ in_prev # Template(mb_size)
    /\ InputBuffer(mbin) = in_prev
    /\ mb_size = 200

\* The index a segment stands for: its number, or 0 when it is not one
IndexOf(seg) == IF ParseU32(seg) >= 0 THEN ParseU32(seg) ELSE 0

\* The calls of the internal hook and of the indexed handlers in the log
IndexedCalls == {n \in 1..Len(calls) : calls[n].path \in {"internal", "tagname"}}

\* C15 as stated: the last two segments of the key, right-aligned: the last
\* one is index1, the one before it (if it is not the name) index0.
C15_RightAligned ==
    \A n \in IndexedCalls :
        LET tag == calls[n].tag
            len == Len(tag)
        IN  calls[n].idx = <<IF len >= 3 THEN IndexOf(tag[len - 1]) ELSE 0,
                             IF len >= 2 THEN IndexOf(tag[len]) ELSE 0>>

\* C15: the internal hook and the indexed handlers get the same two indices:
\* of the first two segments after the name, the last is index0 and, when
\* there are two, the first is index1 ('p.1' gives (1, 0), 'p.1.2' gives
\* (2, 1)); a segment that is absent or not a number leaves 0, further
\* segments are ignored, and the handler is called all the same.
C15_IndexParsing ==
    \A n \in IndexedCalls :
        LET tag == calls[n].tag
            len == Len(tag)
        IN  /\ calls[n].idx = <<IF len >= 3 THEN IndexOf(tag[3])
                                ELSE IF len = 2 THEN IndexOf(tag[2]) ELSE 0,
                                IF len >= 3 THEN IndexOf(tag[2]) ELSE 0>>
            /\ tag = << <<"p">>, <<"1">> >> => calls[n].idx = <<1, 0>>
            /\ tag = << <<"p">>, <<"1">>, <<"2">> >> => calls[n].idx = <<2, 1>>
            /\ tag = << <<"p">>, <<"x">>, <<"3">> >> => calls[n].idx = <<3, 0>>

\* one frame whose events p.1.2, p.x.3, p.1 and p.1.2.3 each reached the
\* internal hook and an indexed handler
C15_Witness ==
    \A t \in { << <<"p">>, <<"1">>, <<"2">> >>, << <<"p">>, <<"x">>, <<"3">> >>,
                << <<"p">>, <<"1">> >>, << <<"p">>, <<"1">>, <<"2">>, <<"3">> >> } :
        \E i, j \in IndexedCalls :
            /\ calls[i].tag = t /\ calls[i].path = "internal"
            /\ calls[j].tag = t /\ calls[j].path = "tagname"

\* Frame k as handle_message gets it from MESSAGE_PROCESSOR, cut into lines,
\* and each line into its key / value pairs: the key without its leading
\* white space, its segments, the value
PairsOfFrame(k) ==
    LET lines == Split(TrimStartMatches(TrimStart(Frames[k]), "|"), "\n")
    IN  [li \in 1..Len(lines) |->
            LET r == Split(lines[li], "|")
            IN  [j \in 1..(Len(r) \div 2) |->
                    [key |-> TrimStart(r[2 * j - 1]),
                     tag |-> Split(TrimStart(r[2 * j - 1]), "."),
                     value |-> r[2 * j]]]]
FramePairs == [k \in 1..Len(Frames) |-> PairsOfFrame(k)]

\* The pairs of the frame handled last
Handled == FramePairs[last_frame.k]

\* The log has a call made on path, of handler id, for pair j of line li
Dispatched(li, j, path, id) ==
    \E n \in 1..Len(calls) :
        /\ calls[n].line = li /\ calls[n].ev = j
        /\ calls[n].path = path /\ calls[n].id = id
        /\ calls[n].tag = Handled[li][j].tag
        /\ calls[n].value = Handled[li][j].value

\* C16: once a frame is handled, every call made stems from a key followed by
\* its value (the key left alone at the end of a line of odd token count
\* invokes nothing), and every key / value pair of every line has reached the
\* internal hook of its name and each permanent handler registered for it,
\* whatever keys, indices and token counts the frame holds elsewhere.
C16_GracefulParse ==
    last_frame.k > 0 =>
        /\ \A n \in 1..Len(calls) :
             /\ calls[n].line \in 1..Len(Handled)
             /\ calls[n].ev \in 1..Len(Handled[calls[n].line])
             /\ Dispatched(calls[n].line, calls[n].ev, calls[n].path, calls[n].id)
        /\ \A li \in 1..Len(Handled) :
             \A j \in 1..Len(Handled[li]) :
                LET ev == Handled[li][j]
                IN  /\ ev.tag[1] \in internal_handlers => Dispatched(li, j, "internal", 0)
                    /\ \A id \in 1..last_frame.nreg :
                           (/\ registered[id].count = 0
                            /\ \/ registered[id].reg = "tagname" /\ registered[id].key = ev.tag[1]
                               \/ registered[id].reg = "tag" /\ registered[id].key = ev.key)
                           => Dispatched(li, j, registered[id].reg, id)

\* the frame whose first line ends with the key p alone and whose second line
\* holds the keys p.x.3 and .5 was handled: the events before and after them
\* reached the hook and a permanent handler, and a permanent handler of the
\* tag p was never called
C16_Witness ==
    /\ last_frame = [k |-> 2, nreg |-> 2]
    /\ \E n \in 1..Len(calls) :
            calls[n].line = 1 /\ calls[n].ev = 2 /\ calls[n].path = "tagname"
    /\ \E n \in 1..Len(calls) :
            calls[n].line = 2 /\ calls[n].ev = 1 /\ calls[n].path = "internal"
    /\ \E n \in 1..Len(calls) :
            calls[n].line = 2 /\ calls[n].ev = 5 /\ calls[n].path = "tagname"
    /\ \E id \in 1..Len(registered) :
            /\ registered[id] = [reg |-> "tag", key |-> <<"p">>, count |-> 0]
            /\ fired[id] = <<>>
            /\ id = 1

RECURSIVE PairsBefore(_)
\* The key / value pairs of the frame handled last in the lines before li
PairsBefore(li) == IF li = 1 THEN 0 ELSE PairsBefore(li - 1) + Len(Handled[li - 1])

\* The serial number of pair j of line li of that frame among all events
SerialOf(li, j) == nevents - PairsBefore(Len(Handled) + 1) + PairsBefore(li) + j

\* Registration id was in its registry when event number s was looked up:
\* s matches it, as one of its first N matches if its count is N > 0
LiveAt(id, s) ==
    \E x \in 1..Len(matched[id]) :
        /\ matched[id][x] = s
        /\ registered[id].count = 0 \/ x <= registered[id].count

\* The calls the last frame made on path for pair j of its line li
CallsAt(li, j, path) ==
    {n \in 1..Len(calls) : calls[n].line = li /\ calls[n].ev = j /\ calls[n].path = path}

\* C17: for each event of a frame and each registry, the handlers invoked
\* are invoked in the reverse of their order of registration, and they are
\* exactly the handlers that were in the registry under the event's key
\* when the event was looked up, each once, whether or not one of them
\* expired and was removed in that pass.
C17_NewestFirst ==
    last_frame.k > 0 =>
        \A li \in 1..Len(Handled) : \A j \in 1..Len(Handled[li]) :
            \A path \in {"tagname", "tag"} :
                /\ \A m, n \in CallsAt(li, j, path) : m < n => calls[m].id > calls[n].id
                /\ \A id \in 1..last_frame.nreg :
                     registered[id].reg = path =>
                        (LiveAt(id, SerialOf(li, j)) <=>
                            \E n \in CallsAt(li, j, path) : calls[n].id = id)

\* two handlers under one key: for one event the second registered was
\* called first, expired and was removed, and the first was called after it
C17_Witness ==
    /\ Len(registered) = 2
    /\ registered[1].reg = registered[2].reg
    /\ registered[1].key = registered[2].key
    /\ registered[2].count = 1
    /\ ~InRegistry(2)
    /\ InRegistry(1)
    /\ \E m, n \in 1..Len(calls) :
        /\ m < n
        /\ calls[m].line = calls[n].line /\ calls[m].ev = calls[n].ev
        /\ calls[m].path = calls[n].path
        /\ calls[m].id = 2 /\ calls[n].id = 1

\* Registry m holds no key with an empty list and no handler whose positive
\* count is used up; what is left of a positive count is the count less the
\* invocations made.
RegistryClean(m) ==
    \A k \in DOMAIN m :
        /\ m[k] # <<>>
        /\ \A n \in 1..Len(m[k]) :
             LET id == m[k][n].id
                 N == registered[id].count
             IN  N > 0 => /\ Len(fired[id]) < N
                          /\ m[k][n].count = N - Len(fired[id])

\* C18: between two calls of handle_message and of the setters, neither
\* registry holds a key with an empty handler list or a handler registered
\* with a positive count and invoked that many times; the key of a handler
\* that expired as the last of its list is gone once that frame is handled.
C18_RegistryInvariant ==
    /\ RegistryClean(tag_handlers)
    /\ RegistryClean(tagname_handlers)
    /\ \A id \in 1..Len(registered) :
         LET m == IF registered[id].reg = "tag" THEN tag_handlers ELSE tagname_handlers
             k == registered[id].key
         IN  (\A o \in 1..Len(registered) :
                 (registered[o].reg = registered[id].reg /\ registered[o].key = k)
                    => (registered[o].count > 0
                        /\ Len(fired[o]) = registered[o].count))
             => k \notin DOMAIN m

\* the only handler of the tag p.1 expired and its key is gone, while the
\* key p of a handler that has not expired is still there
C18_Witness ==
    /\ Len(registered) = 2
    /\ registered[1] = [reg |-> "tag", key |-> <<"p", ".", "1">>, count |-> 1]
    /\ registered[2] = [reg |-> "tag", key |-> <<"p">>, count |-> MaxCount]
    /\ Len(fired[1]) = 1
    /\ Len(fired[2]) = 1
    /\ DOMAIN tag_handlers = {<<"p">>}

\* C19: a tagname handler is invoked only for events whose segment 0 is the
\* key it was registered under, a tag handler only for events whose whole
\* key is; so a tag handler is not invoked for a longer key that starts with
\* its own, and a tagname handler registered under a key with a '.' in it is
\* never invoked.
C19_LookupKeys ==
    /\ \A n \in 1..Len(calls) :
         /\ calls[n].path = "tagname" =>
                registered[calls[n].id].key = calls[n].tag[1]
         /\ calls[n].path = "tag" =>
                Split(registered[calls[n].id].key, ".") = calls[n].tag
    /\ \A id \in 1..Len(registered) :
         (/\ registered[id].reg = "tagname"
          /\ \E i \in 1..Len(registered[id].key) : registered[id].key[i] = ".")
         => fired[id] = <<>>

\* with a permanent tag handler under p and a permanent tagname handler
\* under p.1 registered first, both frames were handled: the tag handler was
\* invoked once, for the event p, and the tagname handler never
C19_Witness ==
    /\ nframes = 2
    /\ last_frame = [k |-> 1, nreg |-> 2]
    /\ registered = << [reg |-> "tag", key |-> <<"p">>, count |-> 0],
                       [reg |-> "tagname", key |-> <<"p", ".", "1">>, count |-> 0] >>
    /\ Len(fired[1]) = 1
    /\ fired[2] = <<>>
    /\ \E n \in 1..Len(calls) : calls[n].path = "tag" /\ calls[n].tag = << <<"p">> >>

\* The names of the init and of the cyclic queries
InitSet == {InitNames[i] : i \in 1..Len(InitNames)}
CyclicSet == {CyclicNames[i] : i \in 1..Len(CyclicNames)}

RECURSIVE QueriesSent(_)
\* The query names the commands in a channel carry, in channel order
QueriesSent(ch) ==
    IF ch = <<>> THEN <<>>
    ELSE (IF IsEval(Head(ch))
          THEN SelectSeq(ScriptOf(Head(ch)), LAMBDA x : x \in InitSet \cup CyclicSet)
          ELSE <<>>)
         \o QueriesSent(Tail(ch))

\* The init queries connection 1 was sent, in the order sent
InitSent == SelectSeq(QueriesSent(user_ch[1]), LAMBDA x : x \in InitSet)

\* A tick that found the init list non-empty took min(query_count, length)
\* entries off its front and left the cyclic cursor where it was; what it
\* sent holds no cyclic query.
InitTick(t) ==
    t.pre_init # <<>> =>
        /\ t.qlen = Min(query_count, Len(t.pre_init))
        /\ t.post_init = SubSeq(t.pre_init, t.qlen + 1, Len(t.pre_init))
        /\ t.post_cursor = t.pre_cursor
        /\ \A x \in CyclicSet : \A n \in 1..Len(QueriesSent(t.sent)) :
               QueriesSent(t.sent)[n] # x

AllAttempted(es) ==
    /\ es # <<>>
    /\ es[1].start = 0
    /\ \A k \in 1..(Len(es) - 1) : es[k + 1].start = es[k].start + es[k].cnt
    /\ es[Len(es)].start + es[Len(es)].cnt = mb_size

\* C21: the Modbus thread publishes the inputs only at the end of a cycle,
\* after every chunk of the cycle was attempted, and a cycle ends in no other
\* way than by its publish, so each cycle publishes once; the view of the
\* host changes only by taking the snapshot published last, so the host
\* never sees the words of a cycle under way.
C21_PublishPerCycle ==
    [][/\ mbin'.input # mbin.input =>
            /\ mb_pc = "publish" /\ mb_pc' = "tick"
            /\ AllAttempted(exch)
            /\ in_pub' = InputBuffer(mbin)
       /\ (mb_pc \in {"chunk", "publish"} /\ mb_pc' # mb_pc) =>
            \/ mb_pc = "chunk" /\ mb_pc' = "publish" /\ mbin'.input = mbin.input
            \/ mb_pc = "publish" /\ mb_pc' = "tick" /\ mbin'.input # mbin.input
       /\ mb_cycle' # mb_cycle =>
            mb_pc = "tick" /\ mb_pc' = "chunk" /\ mb_cycle' = mb_cycle + 1
       /\ OutputBuffer(mbin)' # OutputBuffer(mbin) =>
            /\ OutputBuffer(mbin)' = in_pub
            /\ in_pub' = in_pub
            /\ mb_pc' = mb_pc]_vars

\* the second cycle over 200 words is between its two chunks, the first
\* answered with new words, while the host reads the snapshot of the first cycle
C21_Witness ==
    /\ mb_size = 200
    /\ mb_cycle = 2
    /\ mb_pc = "chunk"
    /\ Len(exch) = 1
    /\ exch[1].ok
    /\ ~mbin.dirty
    /\ OutputBuffer(mbin) = in_pub
    /\ InputBuffer(mbin) # in_pub
    /\ in_pub # Template(mb_size)

\* The first n steps of a handshake that succeeds
StepsUpTo(n) == SubSeq(HandshakeSteps, 1, n)

\* C22: for every connect() call that started a connection, the on_open
\* callback was invoked at most once, and when it was, the handshake had
\* succeeded, then the send handle was stored, then the connected flag was
\* set, in this order, before it; a connection whose handshake did not
\* succeed has had no store, no flag and no callback.
C22_OpenCallbackOrder ==
    \A c \in Conns :
        /\ open_log[c] <= 1
        /\ \E n \in 0..Len(HandshakeSteps) : life_log[c] = StepsUpTo(n)
        /\ open_log[c] = 1 <=> life_log[c] = HandshakeSteps
        /\ (c > nconn \/ ws[c] = "connecting") => life_log[c] = <<>>

\* the callback of connection 1 has just been invoked: the handle is stored,
\* the flag is set, the event loop runs and the thread has ended
C22_Witness ==
    /\ open_log[1] = 1
    /\ life_log[1] = HandshakeSteps
    /\ tpc[1] = "done"
    /\ ws[1] = "open"
    /\ ws_out = 1
    /\ is_connected

\* s is t or the beginning of t
IsPrefix(s, t) == Len(s) <= Len(t) /\ s = SubSeq(t, 1, Len(s))

\* C23: what the relay of a connection wrote to the transport is a beginning
\* of what entered its channel, in the same order and with no frame twice,
\* and while it runs nothing that entered is skipped; a write takes the
\* oldest frame waiting and removes it; the relay ends when a write fails
\* (a frame is waiting and the event loop has ended) or the channel is
\* closed, and once ended it never runs or writes again.
C23_RelayOrder ==
    /\ [](\A c \in Conns :
            /\ IsPrefix(wire[c], entered[c])
            /\ relay[c] = "run" => entered[c] = wire[c] \o user_ch[c])
    /\ [][\A c \in Conns :
            /\ wire'[c] # wire[c] =>
                 /\ relay[c] = "run" /\ relay'[c] = "run"
                 /\ user_ch[c] # <<>>
                 /\ wire'[c] = Append(wire[c], Head(user_ch[c]))
                 /\ user_ch'[c] = Tail(user_ch[c])
            /\ relay[c] = "done" => (relay'[c] = "done" /\ wire'[c] = wire[c])
            /\ (relay[c] = "run" /\ relay'[c] = "done") =>
                 /\ wire'[c] = wire[c]
                 /\ \/ user_ch[c] # <<>> /\ ~Live(c)
                    \/ user_ch[c] = <<>> /\ user_sender # c
            /\ RelayFail(c) => relay'[c] = "done"]_vars

\* the relay wrote a send_message frame and then a script command, a third
\* frame entered when the event loop had ended, and the write of it failed
C23_Witness ==
    /\ Len(wire[1]) = 2
    /\ ~IsEval(wire[1][1]) /\ IsEval(wire[1][2])
    /\ Len(entered[1]) = 3
    /\ relay[1] = "done"
    /\ user_ch[1] = <<>>

\* C24: once the event loop of the connection has ended, its relay thread,
\* its MESSAGE_PROCESSOR thread and its POLL thread each come to an end, and
\* a POLL thread that has ended does not run again.
C24_WorkersTerminate ==
    /\ ~Live(1) ~> (/\ relay[1] = "done"
                    /\ mp[1] \in {"done", "panicked"}
                    /\ poll[1] = "done")
    /\ [][poll[1] = "done" => poll'[1] = "done"]_vars

\* C30: a dispatch that has begun completes: the MESSAGE_PROCESSOR thread,
\* once inside handle_message, returns to the recv of its loop, also when a
\* callback it invokes registers a callback and when the host registers
\* callbacks at the same time.
C30_DispatchCompletes == (hm_pc # "recv") ~> (hm_pc = "recv")

\* the threads of mb_connect calls that hold the writer of the inputs, and
\* those that run the cyclic loop
HoldInput == {t \in 1..MaxMbCalls : mb_thr[t] \in {"take_holding", "loop"}}
Loops == {t \in 1..MaxMbCalls : mb_thr[t] = "loop"}

\* C25: whatever the number and the interleaving of mb_connect calls, at
\* most one thread holds the writer of the inputs and at most one runs the
\* cyclic loop; each handle is gone from its Option exactly when a thread got
\* it; the loop runs only in the thread that got both, and every other
\* thread has ended before the loop.
C25_SingleLoop ==
    /\ Cardinality(HoldInput) <= 1
    /\ Cardinality(Loops) <= 1
    /\ mbin_input <=> HoldInput = {}
    /\ mbhd_output <=> Loops = {}
    /\ mb_pc # "idle" <=> Loops # {}
    /\ \A t \in 1..MaxMbCalls :
         mb_thr[t] \in {"idle", "take_input", "take_holding", "loop", "panicked"}

\* the thread of the first call has published a cycle; the thread of the
\* second call found the Option empty and ended
C25_Witness ==
    /\ mb_thr[1] = "loop"
    /\ mb_thr[2] = "panicked"
    /\ mb_cycle >= 1
    /\ mb_pc = "tick"
    /\ in_pub # Template(mb_size)

\* connect() established a connection after c: its send handle is stored and
\* the connected flag was set for it
LaterEstablished(c) == \E d \in Conns : d > c /\ Len(life_log[d]) >= 3

\* C26: once a later connect() has established a connection, the
\* MESSAGE_PROCESSOR thread of an earlier connection dispatches no frame and
\* its POLL thread sends no command.
C26_NoLeftoverWorker ==
    [][\A c \in Conns :
          LaterEstablished(c) =>
              /\ ~MpRecv(c)
              /\ PollTick(c) => entered' = entered]_vars

\* the teardown of connection c has cleared the script queue (line 255 ran)
Cleared(c) == ws[c] \in {"exit_connecting", "exit_connected", "done"}

\* no connection made after c has stored its send handle yet (line 282)
NoneStoredAfter(c) == \A d \in Conns : d > c => Len(life_log[d]) < 2

\* C27: once the teardown of a connection has cleared the outbound script
\* queue, the queue is empty as long as no later connection has stored its
\* send handle.
C27_QueueStaysEmpty ==
    \A c \in Conns : (Cleared(c) /\ NoneStoredAfter(c)) => scripts_buffer = <<>>

\* C28: the script fragments enter the outbound channel in the order
\* send_script_to_buffer enqueued them, none twice, whether a tick's
\* pop_scripts_buffer or flush_scripts_buffer carries them: each fragment
\* stands after all the fragments enqueued before it.
C28_FlushOrder ==
    LET out == NamesIn(Concat(ScriptsSent(entered[1])))
    IN  \A i, j \in 1..Len(out) : i < j => EnqueuePlace(out[i]) < EnqueuePlace(out[j])

\* C29: a tick of the POLL thread that finds the outbound script queue
\* non-empty removes at least one fragment from it, whatever value
\* set_scripts_pop_count stored.
C29_QueueProgress ==
    (ntick > 0 /\ last_tick.pre_buffer # <<>>)
        => Len(last_tick.post_buffer) < Len(last_tick.pre_buffer)

====
